---- MODULE Spec2Model ----
(***************************************************************************)
(* A model of Zenith's markup compiler (zenith/markup.py):                 *)
(*   zml = _unescape . combine_spans . zml_get_spans . zml_pre_process     *)
(* together with the registries it reads (zml_alias, zml_macro).           *)
(*                                                                         *)
(* Text representation.  A tag is a sequence of lexemes: the marker        *)
(* characters "/", "@", "!", "~", "#", "_", "-", "*", "(", ")", "," and    *)
(* "." stand for themselves, and a run of letters or digits is one lexeme. *)
(* startswith, lstrip, slicing, replace("_", "-") and concatenation are    *)
(* therefore modelled on the lexemes they act on.  A markup string is fed  *)
(* to the compiler already cut by RE_MARKUP into tag groups and plain      *)
(* runs.                                                                   *)
(*                                                                         *)
(* The three passes of zml (pre-process, span building, serialisation) are *)
(* left folds over the same sequence of groups.  The model advances them   *)
(* together, one tag or one plain run at a time; an error of the span      *)
(* builder is held in `pending` until the pre-processor has seen all of    *)
(* the input, since the code runs zml_pre_process to its end first.        *)
(***************************************************************************)
EXTENDS Integers, Sequences, FiniteSets, TLC

VARIABLES
    aliases,    \* ctx["aliases"]: alias key -> replacement (sequence of tags)
    macros,     \* ctx["macros"]: macro key -> macro function (its __name__)
    nregs,      \* number of zml_alias and zml_macro calls so far
    pc,         \* "idle" | "run" | "done" | "raised": position of the zml call
    prefix,     \* the prefix argument of the running call
    pos,        \* "start" | "in" | "out": before the markup, in a tag group, after one
    closed,     \* the plain run was closed: a tag that stays in the text follows
    active,     \* zml_pre_process: the `macros` dict of active macros, in order
    pending,    \* error raised by zml_get_spans, surfacing after pre-process
    error,      \* the error the call raised, "none" if none
    styles,     \* zml_get_spans: the mutable StyleMap
    cstyles,    \* combine_spans: the accumulated StyleMap
    prev,       \* combine_spans: the accumulated StyleMap before the last step
    run,        \* the plain run of the pre-processed text not yet in a span
    before,     \* zml_get_spans: the StyleMap as the last span's run began
    span,       \* the span (or FULL_RESET) appended last by zml_get_spans
    out,        \* combine_spans: what the last step appended to buff
    tail,       \* the last token of buff, NoToken while buff is empty
    ptail,      \* the last token of buff before the last step of combine_spans
    nspans,     \* number of text spans of the running call
    ev,         \* the last event: what was fed, and how far it got
    cache,      \* LRUCache._cache: the items of the OrderedDict, oldest first
    used,       \* the keys of the cache in the order of their last use
    lev,        \* the last operation on the LRUCache and its result
    pal,        \* the Palette: its _ctx and its namespace
    other,      \* the alias table of a second context
    snap,       \* the alias tables as the last Palette.alias found them
    pev,        \* the last operation on the Palette and its result
    gcache,     \* the lru_cache of the gradient macro: arguments -> result
    gres,       \* the last call of zml with a gradient, and its result
    pcall,      \* the last call of parse_color, and its result
    fcall,      \* the last call of a method of Color, and its result
    apc,        \* where the first loop of a zml_pre_process call is
    atodo,      \* the tags of the group that the first loop has not reached
    aout,       \* the tags the first loop has put into `aliased`
    ecall       \* the last zml(zml_escape(text)) call, and its result

\* The variables of the markup compiler and of its context.
zvars == <<aliases, macros, nregs, pc, prefix, pos, closed, active, pending,
           error, styles, run, before, cstyles, prev, span, out, tail, ptail,
           nspans, ev>>

\* The variables of the compiler without the alias table.
zrest == <<macros, nregs, pc, prefix, pos, closed, active, pending, error,
           styles, run, before, cstyles, prev, span, out, tail, ptail, nspans,
           ev>>

lruvars == <<cache, used, lev>>
palvars == <<pal, other, snap, pev>>
gvars == <<gcache, gres>>
avars == <<apc, atodo, aout>>
cvars == <<pcall, fcall, avars, ecall>>

\* What the compiler and zml_alias, zml_macro leave alone.
xvars == <<lruvars, palvars, gvars, cvars>>

vars == <<zvars, lruvars, palvars, gvars, cvars>>

----------------------------------------------------------------------------
(* Bounds of the model. *)

\* Pieces of plain text per zml call, in each specification.
MaxSpans == 3
MaxAutoSpans == 2
MaxCtxSpans == 1
\* Registrations (zml_alias and zml_macro calls) per context.
MaxRegs == 2

----------------------------------------------------------------------------
(* Values held by a StyleMap / Span attribute. *)

None == [kind |-> "none"]
BoolVal(b) == [kind |-> "bool", val |-> b]
StrVal(s) == [kind |-> "str", val |-> s]
Color(rgb, bg) == [kind |-> "color", rgb |-> rgb, is_background |-> bg]

\* Python truthiness of an attribute value (`not value`, `if value`).
Truthy(v) ==
    CASE v.kind = "none" -> FALSE
      [] v.kind = "bool" -> v.val
      [] v.kind = "str" -> v.val # <<>>
      [] OTHER -> TRUE

FlagKeys ==
    <<"bold", "dim", "italic", "underline", "blink", "fast_blink", "invert",
      "conceal", "strike">>

\* The keys of a StyleMap, in declaration order.
StyleKeys == FlagKeys \o <<"foreground", "background", "hyperlink">>

StyleKeySet == {StyleKeys[i] : i \in 1..Len(StyleKeys)}

GetStyleMap ==
    [k \in StyleKeySet |->
        CASE k \in {"foreground", "background"} -> None
          [] k = "hyperlink" -> StrVal(<<>>)
          [] OTHER -> BoolVal(FALSE)]

\* The lexemes of a StyleMap key, as a tag would spell it.
KeyLexemes(k) == IF k = "fast_blink" THEN <<"fast", "_", "blink">> ELSE <<k>>

----------------------------------------------------------------------------
(* String helpers on lexeme sequences. *)

StartsWith(tag, c) == Len(tag) > 0 /\ tag[1] = c

RECURSIVE LStrip(_, _)
LStrip(tag, c) == IF StartsWith(tag, c) THEN LStrip(Tail(tag), c) ELSE tag

Contains(tag, c) == \E i \in 1..Len(tag) : tag[i] = c

\* str.find: the first index of c, 0 if there is none.
Find(tag, c) ==
    IF Contains(tag, c)
    THEN CHOOSE i \in 1..Len(tag) : tag[i] = c /\ \A j \in 1..(i - 1) : tag[j] # c
    ELSE 0

\* str.replace(a, b)
Replace(tag, a, b) == [i \in 1..Len(tag) |-> IF tag[i] = a THEN b ELSE tag[i]]

\* str.split(c)
RECURSIVE Split(_, _)
Split(tag, c) ==
    LET i == Find(tag, c)
    IN  IF i = 0 THEN <<tag>>
        ELSE <<SubSeq(tag, 1, i - 1)>> \o Split(SubSeq(tag, i + 1, Len(tag)), c)

----------------------------------------------------------------------------
(* Colors: zenith/color.py and parse_color. *)

OFF_WHITE == <<245, 245, 245>>
OFF_BLACK == <<35, 35, 35>>

\* Lexemes that are runs of one to three decimal digits, with their value.
DigitLexemes ==
    {"0", "1", "7", "8", "9", "15", "16", "141", "255", "256", "300"}

\* Lexemes for which str.isdigit() holds: the former, longer runs of digits,
\* and the hexadecimal lexemes that have decimal digits only.
DecimalLexemes == DigitLexemes \cup {"1000", "000000"}

\* int(d)
IntOf(d) ==
    CASE d = "0" -> 0
      [] d = "1" -> 1
      [] d = "7" -> 7
      [] d = "8" -> 8
      [] d = "9" -> 9
      [] d = "15" -> 15
      [] d = "16" -> 16
      [] d = "141" -> 141
      [] d = "255" -> 255
      [] d = "256" -> 256
      [] d = "300" -> 300
      [] d = "1000" -> 1000
      [] d = "000000" -> 0

\* Lexemes that begin with six hexadecimal digits, with their channels
\* (int(part, base=16) of each pair).
HexLexemes == {"ff0000", "000000"}

HexRGB(h) ==
    CASE h = "ff0000" -> <<255, 0, 0>>
      [] h = "000000" -> <<0, 0, 0>>

\* NAMED_COLORS: name -> "#rrggbb".
NamedColors == {<<"red">>, <<"black">>}

NamedHex(name) ==
    CASE name = <<"red">> -> <<"#", "ff0000">>
      [] name = <<"black">> -> <<"#", "000000">>

\* COLOR_TABLE[index], for the indices the model uses (xterm palette).
ColorTable(index) ==
    CASE index = 0 -> <<0, 0, 0>>
      [] index = 1 -> <<128, 0, 0>>
      [] index = 7 -> <<192, 192, 192>>
      [] index = 8 -> <<128, 128, 128>>
      [] index = 9 -> <<255, 0, 0>>
      [] index = 15 -> <<255, 255, 255>>
      [] index = 16 -> <<0, 0, 0>>
      [] index = 141 -> <<175, 135, 255>>
      [] index = 255 -> <<238, 238, 238>>

\* _linearize(c / 255), in units of 10^-4, for the channel values that occur.
Linearize(c) ==
    CASE c = 0 -> 0
      [] c = 35 -> 168
      [] c = 128 -> 2159
      [] c = 135 -> 2423
      [] c = 175 -> 4287
      [] c = 245 -> 9131
      [] c = 255 -> 10000

\* Color.luminance, in units of 10^-8.
Luminance(c) ==
    2126 * Linearize(c.rgb[1]) + 7152 * Linearize(c.rgb[2])
        + 722 * Linearize(c.rgb[3])

\* A contrast that is always a foreground.
ContrastAsForeground(c) ==
    IF Luminance(c) > 17900000
    THEN Color(OFF_BLACK, FALSE)
    ELSE Color(OFF_WHITE, FALSE)

\* Color.contrast: luminance > 0.179
Contrast(c) ==
    IF Luminance(c) > 17900000
    THEN Color(OFF_BLACK, c.is_background)
    ELSE Color(OFF_WHITE, c.is_background)

\* Color.as_background
AsBackground(c, setting) == Color(c.rgb, setting)

\* RE_COLOR.match(tag)
ReColorMatch(tag) ==
    LET t == IF StartsWith(tag, "@") THEN Tail(tag) ELSE tag
        h == IF StartsWith(t, "#") THEN Tail(t) ELSE t
    IN  \/ Len(t) = 1 /\ t[1] \in DigitLexemes
        \/ Len(h) >= 1 /\ h[1] \in HexLexemes
        \/ /\ Len(t) >= 5
           /\ t[1] \in DigitLexemes /\ t[2] = ";"
           /\ t[3] \in DigitLexemes /\ t[4] = ";"
           /\ t[5] \in DigitLexemes

\* An index branch that takes every index above 255 for 255.
IndexBodyClamped(index, bg) ==
    CASE index < 8 -> [raised |-> "none", body |-> <<30 + bg + index>>]
      [] index >= 8 /\ index < 16 ->
           [raised |-> "none", body |-> <<80 + bg + index + 2>>]
      [] index >= 16 /\ index < 256 ->
           [raised |-> "none", body |-> <<38 + bg, 5, index>>]
      [] OTHER -> [raised |-> "none", body |-> <<38 + bg, 5, 255>>]

\* An index branch without the bright codes: 8..15 go the indexed way.
IndexBodyNoBright(index, bg) ==
    CASE index < 8 -> [raised |-> "none", body |-> <<30 + bg + index>>]
      [] index >= 8 /\ index < 256 ->
           [raised |-> "none", body |-> <<38 + bg, 5, index>>]
      [] OTHER -> [raised |-> "ZmlNameError", body |-> <<>>]

\* The branch of parse_color for a color that is a decimal number; bg is
\* background * 10.
IndexBody(index, bg) ==
    CASE index < 8 -> [raised |-> "none", body |-> <<30 + bg + index>>]
      [] index >= 8 /\ index < 16 ->
           [raised |-> "none", body |-> <<80 + bg + index + 2>>]
      [] index >= 16 /\ index < 256 ->
           [raised |-> "none", body |-> <<38 + bg, 5, index>>]
      [] OTHER -> [raised |-> "ZmlNameError", body |-> <<>>]

\* parse_color: the SGR body as its ";"-separated parts; a part that is no
\* decimal number is -1.  raised is the error, "none" if none.
ParseColor(color0, background) ==
    LET bg == IF background THEN 10 ELSE 0
        color1 == LStrip(color0, "@")
        color == IF color1 \in NamedColors THEN NamedHex(color1) ELSE color1
    IN  IF Len(color1) = 1 /\ color1[1] \in DecimalLexemes
        THEN IndexBody(IntOf(color1[1]), bg)
        ELSE IF StartsWith(color, "#")
        THEN [raised |-> "none",
              body |-> <<38 + bg, 2>> \o HexRGB(LStrip(color, "#")[1])]
        ELSE [raised |-> "none",
              body |-> <<38 + bg, 2>> \o
                  [i \in 1..((Len(color) + 1) \div 2) |->
                      IF color[2 * i - 1] \in DigitLexemes
                      THEN IntOf(color[2 * i - 1]) ELSE -1]]

\* A from_ansi that takes the bright codes 90..97 and 100..107 for the
\* normal ones.
FromAnsiBrightAsNormal(parts) ==
    IF Len(parts) > 3
    THEN [raised |-> "none",
          color |-> Color(SubSeq(parts, 3, Len(parts)), parts[1] \div 10 = 4)]
    ELSE LET ansi == parts[Len(parts)]
             one == Len(parts) = 1
             low == IF one /\ 30 <= ansi /\ ansi < 38 THEN ansi - 30
                    ELSE IF one /\ 40 <= ansi /\ ansi < 48 THEN ansi - 40
                    ELSE ansi
             index == IF one /\ 90 <= low /\ low < 98 THEN low - 90
                      ELSE IF one /\ 100 <= low /\ low < 108 THEN low - 100
                      ELSE low
             is_background ==
                 one /\ (\/ (40 <= ansi /\ ansi < 48)
                         \/ (100 <= low /\ low < 108))
         IN  IF ansi < 0
             THEN [raised |-> "ValueError", color |-> None]
             ELSE [raised |-> "none",
                   color |-> Color(ColorTable(index), is_background)]

\* Color.from_ansi
FromAnsi(parts) ==
    IF Len(parts) > 3
    THEN [raised |-> "none",
          color |-> Color(SubSeq(parts, 3, Len(parts)), parts[1] \div 10 = 4)]
    ELSE LET ansi == parts[Len(parts)]
             one == Len(parts) = 1
             low == IF one /\ 30 <= ansi /\ ansi < 38 THEN ansi - 30
                    ELSE IF one /\ 40 <= ansi /\ ansi < 48 THEN ansi - 40
                    ELSE ansi
             index == IF one /\ 90 <= low /\ low < 98 THEN low - 82
                      ELSE IF one /\ 100 <= low /\ low < 108 THEN low - 92
                      ELSE low
             is_background ==
                 one /\ (\/ (40 <= ansi /\ ansi < 48)
                         \/ (100 <= low /\ low < 108))
         IN  IF ansi < 0
             THEN [raised |-> "ValueError", color |-> None]
             ELSE [raised |-> "none",
                   color |-> Color(ColorTable(index), is_background)]

----------------------------------------------------------------------------
(* zml_get_spans: applying tags to the StyleMap. *)

FG == <<"fg">>
BG == <<"bg">>

\* `tag in styles`: the tag spells a key of the StyleMap.
InStyles(tag) == \E k \in StyleKeySet : KeyLexemes(k) = tag

StyleKeyOf(tag) == CHOOSE k \in StyleKeySet : KeyLexemes(k) = tag

\* _apply_tag(tag, styles): the mutated map and the error raised, if any.
ApplyTag(tag0, st) ==
    IF tag0 = <<"/">>
    THEN [styles |-> GetStyleMap, raised |-> "none"]
    ELSE
    LET is_unsetter == StartsWith(tag0, "/")
        is_background == StartsWith(tag0, "@")
        tag == LStrip(LStrip(tag0, "/"), "@")
        layer == IF is_background THEN "background" ELSE "foreground"
    IN  IF InStyles(tag) \/ tag \in {FG, BG}
        THEN [raised |-> "none",
              styles |->
                 CASE tag = FG -> [st EXCEPT !["foreground"] = None]
                   [] tag = BG -> [st EXCEPT !["background"] = None]
                   [] OTHER ->
                        [st EXCEPT ![StyleKeyOf(tag)] = BoolVal(~is_unsetter)]]
        ELSE IF ReColorMatch(tag)
        THEN LET body == ParseColor(tag, is_background)
                 col == FromAnsi(body.body)
             IN  IF body.raised # "none"
                 THEN [styles |-> st, raised |-> body.raised]
                 ELSE IF col.raised # "none"
                 THEN [styles |-> st, raised |-> col.raised]
                 ELSE [styles |-> [st EXCEPT ![layer] = col.color],
                       raised |-> "none"]
        ELSE IF tag \in NamedColors
        THEN [styles |->
                 [st EXCEPT ![layer] =
                     AsBackground(Color(HexRGB(NamedHex(tag)[2]), FALSE),
                                  is_background)],
              raised |-> "none"]
        ELSE IF StartsWith(tag, "~")
        THEN [styles |->
                 [st EXCEPT !["hyperlink"] =
                     IF is_unsetter THEN StrVal(<<>>) ELSE StrVal(Tail(tag))],
              raised |-> "none"]
        ELSE [styles |-> st, raised |-> "ZmlNameError"]

\* _apply_auto_foreground without the swap of the layers under `invert`.
ApplyAutoForegroundNoSwap(st) ==
    IF st["foreground"] = None /\ st["background"] # None
    THEN IF st["background"].kind # "color"
         THEN [auto_fg |-> FALSE, styles |-> st, raised |-> "AttributeError"]
         ELSE [auto_fg |-> TRUE,
               raised |-> "none",
               styles |-> [st EXCEPT !["foreground"] =
                              AsBackground(Contrast(st["background"]), FALSE)]]
    ELSE [auto_fg |-> FALSE, styles |-> st, raised |-> "none"]

\* _apply_auto_foreground(styles): the mutated map, the returned flag and
\* the error raised (a value that is no Color has no `contrast`).
ApplyAutoForeground(st) ==
    LET invert == Truthy(st["invert"])
        foreground == IF invert THEN st["background"] ELSE st["foreground"]
        background == IF invert THEN st["foreground"] ELSE st["background"]
    IN  IF foreground = None /\ background # None
        THEN IF background.kind # "color"
             THEN [auto_fg |-> FALSE, styles |-> st, raised |-> "AttributeError"]
             ELSE LET new == AsBackground(Contrast(background), invert)
                  IN  [auto_fg |-> TRUE,
                       raised |-> "none",
                       styles |-> IF invert
                                  THEN [st EXCEPT !["background"] = new]
                                  ELSE [st EXCEPT !["foreground"] = new]]
        ELSE [auto_fg |-> FALSE, styles |-> st, raised |-> "none"]

\* Span(plain, **styles) and the FULL_RESET sentinel.  The text of a span is
\* the sequence of the pieces of its plain run.
Span(text, st) == [reset |-> FALSE, text |-> text, attrs |-> st]
FULL_RESET == [reset |-> TRUE, text |-> <<>>, attrs |-> GetStyleMap]
NoSpan == [reset |-> FALSE, text |-> <<>>, attrs |-> GetStyleMap]

----------------------------------------------------------------------------
(* combine_spans: the serializer. *)

\* Output tokens: an SGR sequence ESC [ codes m, an OSC8 sequence
\* ESC ] 8 ; ; url ESC \ (closing when url is empty), or literal text.
SetCode(k, v) == [op |-> "set", attr |-> k, val |-> v]
UnsetCode(k) == [op |-> "unset", attr |-> k, val |-> None]
ResetCode == [op |-> "reset", attr |-> "", val |-> None]
Sgr(codes) == [t |-> "sgr", codes |-> codes, url |-> None, text |-> <<>>]
Osc8(url) == [t |-> "osc8", codes |-> <<>>, url |-> url, text |-> <<>>]
Lit(text) == [t |-> "text", codes |-> <<>>, url |-> None, text |-> text]
NoToken == [t |-> "none", codes |-> <<>>, url |-> None, text |-> <<>>]

\* The subsequence of the keys `keys` that satisfy Test, in order.
RECURSIVE SelectKeys(_, _, _, _)
SelectKeys(keys, Test(_, _, _), a, b) ==
    IF keys = <<>> THEN <<>>
    ELSE (IF Test(Head(keys), a, b) THEN <<Head(keys)>> ELSE <<>>)
            \o SelectKeys(Tail(keys), Test, a, b)

\* A diffing loop that forgets the comparison with the accumulated map and
\* hands every attribute of the span to its Span.
InNewUndiffed(key, st, attrs) == TRUE

\* Whether the diffing loop puts `key` into `new` / into `unset`.
InNew(key, st, attrs) ==
    IF key = "hyperlink" /\ attrs[key] \notin {StrVal(<<>>), st[key]}
    THEN TRUE
    ELSE st[key] # attrs[key]

InUnset(key, st, attrs) ==
    /\ ~(key = "hyperlink" /\ attrs[key] \notin {StrVal(<<>>), st[key]})
    /\ st[key] # attrs[key]
    /\ ~Truthy(attrs[key])
    /\ key # "hyperlink"

\* str(Span(**new, text=text, reset_after=False)): the SGR prefix carries
\* the codes of the truthy attributes of `new` (foreground, background, then
\* the flags), and a hyperlink wraps the text in its opening and closing
\* OSC8 sequences.  `given` are the keys of `new`.
IsSet(key, given, attrs) == key \in given /\ Truthy(attrs[key])
\* A Span string whose SGR prefix carries the background before the
\* foreground.
SpanStrBackgroundFirst(given, attrs, text) ==
    LET keys == SelectKeys(<<"background", "foreground">> \o FlagKeys,
                           IsSet, given, attrs)
        codes == [i \in 1..Len(keys) |-> SetCode(keys[i], attrs[keys[i]])]
        linked == IsSet("hyperlink", given, attrs)
    IN  (IF Len(keys) = 0 THEN <<>> ELSE <<Sgr(codes)>>)
        \o (IF linked THEN <<Osc8(attrs["hyperlink"])>> ELSE <<>>)
        \o <<Lit(text)>>
        \o (IF linked THEN <<Osc8(StrVal(<<>>))>> ELSE <<>>)

SpanStr(given, attrs, text) ==
    LET keys == SelectKeys(<<"foreground", "background">> \o FlagKeys,
                           IsSet, given, attrs)
        codes == [i \in 1..Len(keys) |-> SetCode(keys[i], attrs[keys[i]])]
        linked == IsSet("hyperlink", given, attrs)
    IN  (IF Len(keys) = 0 THEN <<>> ELSE <<Sgr(codes)>>)
        \o (IF linked THEN <<Osc8(attrs["hyperlink"])>> ELSE <<>>)
        \o <<Lit(text)>>
        \o (IF linked THEN <<Osc8(StrVal(<<>>))>> ELSE <<>>)

\* The diff of a text span against the accumulated map: the map after the
\* span, and the unset sequence followed by the span's own string.
DiffSpan(st, sp) ==
    LET new == SelectKeys(StyleKeys, InNew, st, sp.attrs)
        given == {new[i] : i \in 1..Len(new)}
        unset == SelectKeys(StyleKeys, InUnset, st, sp.attrs)
    IN  [styles |-> [k \in StyleKeySet |->
                        IF k \in given THEN sp.attrs[k] ELSE st[k]],
         out |-> (IF Len(unset) > 0
                  THEN <<Sgr([i \in 1..Len(unset) |-> UnsetCode(unset[i])])>>
                  ELSE <<>>)
                 \o SpanStr(given, sp.attrs, sp.text)]

\* combine_spans with Span's default reset_after=True: every span's string
\* ends with the reset sequence.
CombineSpanResetAfter(st, sp) ==
    IF sp.reset
    THEN [styles |-> GetStyleMap, out |-> <<Sgr(<<ResetCode>>)>>]
    ELSE [DiffSpan(st, sp) EXCEPT !.out = @ \o <<Sgr(<<ResetCode>>)>>]

\* combine_spans with a FULL_RESET branch that keeps the tracked hyperlink.
CombineSpanKeepLink(st, sp) ==
    IF sp.reset
    THEN [styles |-> [GetStyleMap EXCEPT !["hyperlink"] = st["hyperlink"]],
          out |-> <<Sgr(<<ResetCode>>)>>]
    ELSE DiffSpan(st, sp)

\* One iteration of the loop of combine_spans over `sp`, from the
\* accumulated map `st`: the new map and what is appended to buff.
CombineSpan(st, sp) ==
    IF sp.reset
    THEN [styles |-> GetStyleMap, out |-> <<Sgr(<<ResetCode>>)>>]
    ELSE DiffSpan(st, sp)

----------------------------------------------------------------------------
(* The registries: zml_macro_setter, _find_unsetter, zml_alias. *)

\* The macro functions, by __name__: `ui_upper`, which is `upper` of
\* zenith/macros.py under another name, and the one-argument `not_a_macro`
\* of the test suite, which returns a fixed text whatever it is given.
UiUpper == <<"ui", "_", "upper">>
NotAMacro == <<"not", "_", "a", "_", "macro">>

\* zml_macro_setter(ctx)(macro): the new ctx["macros"].
ZmlMacroSetter(mac, fn) ==
    LET name == Replace(fn, "_", "-")
        key == <<"!">> \o name
    IN  [k \in DOMAIN mac \cup {key} |-> IF k = key THEN fn ELSE mac[k]]

\* _find_unsetter(tag)
FindUnsetter(tag) ==
    IF StartsWith(tag, "!") THEN tag
    ELSE LET key == IF ReColorMatch(tag) \/ tag \in NamedColors
                    THEN (IF StartsWith(tag, "@") THEN BG ELSE FG)
                    ELSE tag
         IN  <<"/">> \o key

\* zml_alias storing every key as it is given.
ZmlAliasPairsAsGiven(al, key, value, assign_unsetter) ==
    LET k1 == key
        k2 == <<"/">> \o key
        unsetter == [i \in 1..Len(value) |-> FindUnsetter(value[i])]
        dom == DOMAIN al \cup {k1} \cup (IF assign_unsetter THEN {k2} ELSE {})
    IN  [k \in dom |->
            IF assign_unsetter /\ k = k2 THEN unsetter
            ELSE IF k = k1 THEN value
            ELSE al[k]]

\* zml_alias(ctx=ctx, assign_unsetter=assign_unsetter, **{key: value}): the
\* new ctx["aliases"].  A value is held as the sequence of its
\* whitespace-separated parts.
ZmlAliasPairs(al, key, value, assign_unsetter) ==
    LET k1 == Replace(key, "_", "-")
        k2 == Replace(<<"/">> \o key, "_", "-")
        unsetter == [i \in 1..Len(value) |-> FindUnsetter(value[i])]
        dom == DOMAIN al \cup {k1} \cup (IF assign_unsetter THEN {k2} ELSE {})
    IN  [k \in dom |->
            IF assign_unsetter /\ k = k2 THEN unsetter
            ELSE IF k = k1 THEN value
            ELSE al[k]]

----------------------------------------------------------------------------
(* zml_pre_process. *)

\* A prefix put in front of the whole tag, markers included.
ApplyPrefixInFront(tag, pre) == pre \o tag

\* _apply_prefix(tag, prefix)
ApplyPrefix(tag, pre) ==
    IF StartsWith(tag, "@") THEN <<"@">> \o pre \o Tail(tag)
    ELSE IF StartsWith(tag, "!") THEN <<"!">> \o pre \o Tail(tag)
    ELSE pre \o tag

\* A first loop that substitutes the aliases inside an alias's value too.
AliasTagNested(tag, pre, al) ==
    IF Contains(tag, "*")
    THEN << <<"!", "alpha", "(">> \o Replace(tag, "*", ",") \o <<")">> >>
    ELSE LET Sub(t) == IF ApplyPrefix(t, pre) \in DOMAIN al
                       THEN al[ApplyPrefix(t, pre)] ELSE <<t>>
             RECURSIVE Flat(_)
             Flat(ts) == IF ts = <<>> THEN <<>>
                         ELSE Sub(Head(ts)) \o Flat(Tail(ts))
         IN  Flat(Sub(tag))

\* The first loop, for one tag: the tags it leaves in `aliased`.
AliasTag(tag, pre, al) ==
    IF Contains(tag, "*")
    THEN << <<"!", "alpha", "(">> \o Replace(tag, "*", ",") \o <<")">> >>
    ELSE LET prefixed == ApplyPrefix(tag, pre)
         IN  IF prefixed \in DOMAIN al THEN al[prefixed] ELSE <<tag>>

\* _parse_macro(tag)
ParseMacro(tag) ==
    LET args_start == Find(tag, "(")
    IN  IF args_start = 0
        THEN [name |-> tag, args |-> <<>>]
        ELSE [name |-> SubSeq(tag, 1, args_start - 1),
              args |-> Split(SubSeq(tag, args_start + 1, Len(tag) - 1), ",")]

\* The dict of active macros, as the sequence of its items in insertion
\* order.
IsActive(act, name) == \E i \in 1..Len(act) : act[i].name = name

DelActive(act, name) == SelectSeq(act, LAMBDA m : m.name # name)

SetActive(act, name, fn, args) ==
    LET item == [name |-> name, fn |-> fn, args |-> args]
    IN  IF IsActive(act, name)
        THEN [i \in 1..Len(act) |-> IF act[i].name = name THEN item ELSE act[i]]
        ELSE Append(act, item)

\* An unsetter that drops the macro if it is there (macros.pop(name, None)).
MacroUnsetLenient(name, act) ==
    [active |-> DelActive(act, name), raised |-> "none", keep |-> FALSE]

\* The branch of the second loop for a tag `/!name`; `name` is the tag
\* without its slash.
MacroUnset(name, act) ==
    IF ~IsActive(act, name)
    THEN [active |-> act, raised |-> "ZmlSemanticsError", keep |-> FALSE]
    ELSE [active |-> DelActive(act, name), raised |-> "none", keep |-> FALSE]

\* A second loop in which the tag `/` leaves the active macros alone.
MacroTagKeepsMacros(tag, act, pre, mac) ==
    IF tag = <<"/">>
    THEN [active |-> act, raised |-> "none", keep |-> TRUE]
    ELSE IF ~StartsWith(tag, "!") /\ ~(StartsWith(tag, "/") /\ StartsWith(Tail(tag), "!"))
    THEN [active |-> act, raised |-> "none", keep |-> TRUE]
    ELSE IF StartsWith(tag, "/")
    THEN MacroUnset(Tail(tag), act)
    ELSE LET parsed == ParseMacro(tag)
             prefixed == ApplyPrefix(parsed.name, pre)
         IN  IF prefixed \notin DOMAIN mac
             THEN [active |-> act, raised |-> "ZmlNameError", keep |-> FALSE]
             ELSE [active |->
                      SetActive(act, parsed.name, mac[prefixed], parsed.args),
                   raised |-> "none", keep |-> FALSE]

\* The second loop, for one tag of tag_list: the dict of active macros, the
\* error raised, and whether the tag stays in tag_list.
MacroTag(tag, act, pre, mac) ==
    IF tag = <<"/">>
    THEN [active |-> <<>>, raised |-> "none", keep |-> TRUE]
    ELSE IF ~StartsWith(tag, "!") /\ ~(StartsWith(tag, "/") /\ StartsWith(Tail(tag), "!"))
    THEN [active |-> act, raised |-> "none", keep |-> TRUE]
    ELSE IF StartsWith(tag, "/")
    THEN MacroUnset(Tail(tag), act)
    ELSE LET parsed == ParseMacro(tag)
             prefixed == ApplyPrefix(parsed.name, pre)
         IN  IF prefixed \notin DOMAIN mac
             THEN [active |-> act, raised |-> "ZmlNameError", keep |-> FALSE]
             ELSE [active |->
                      SetActive(act, parsed.name, mac[prefixed], parsed.args),
                   raised |-> "none", keep |-> FALSE]

\* The second loop over the tags of one alias expansion.
RECURSIVE MacroTags(_, _, _, _)
MacroTags(tags, act, pre, mac) ==
    IF tags = <<>>
    THEN [active |-> act, raised |-> "none", kept |-> <<>>]
    ELSE LET one == MacroTag(Head(tags), act, pre, mac)
         IN  IF one.raised # "none"
             THEN [active |-> one.active, raised |-> one.raised, kept |-> <<>>]
             ELSE LET rest == MacroTags(Tail(tags), one.active, pre, mac)
                  IN  [active |-> rest.active, raised |-> rest.raised,
                       kept |-> (IF one.keep THEN <<Head(tags)>> ELSE <<>>)
                                    \o rest.kept]

\* A piece of plain text: the text read from the markup and the macro calls
\* applied to it, innermost first.  The empty string has base "".
Text(base) == [base |-> base, fx |-> <<>>]

\* macro(plain, *args)
MacroCall(fn, args, plain) ==
    IF fn = UiUpper
    THEN IF Len(args) > 0
         THEN [raised |-> "TypeError", plain |-> plain]
         ELSE [raised |-> "none",
               plain |-> IF plain = Text("") THEN plain
                         ELSE [plain EXCEPT !.fx = Append(@, fn)]]
    ELSE IF Len(args) > 0
         THEN [raised |-> "TypeError", plain |-> plain]
         ELSE [raised |-> "none", plain |-> Text("Why did you call this")]

\* The active macros applied last-activated first.
RECURSIVE ApplyMacrosReversed(_, _)
ApplyMacrosReversed(act, plain) ==
    IF act = <<>>
    THEN [raised |-> "none", plain |-> plain]
    ELSE LET rest == ApplyMacrosReversed(Tail(act), plain)
         IN  IF rest.raised # "none" THEN rest
             ELSE MacroCall(Head(act).fn, Head(act).args, rest.plain)

\* for macro, args in macros.values(): plain = macro(plain, *args)
RECURSIVE ApplyMacros(_, _)
ApplyMacros(act, plain) ==
    IF act = <<>>
    THEN [raised |-> "none", plain |-> plain]
    ELSE LET one == MacroCall(Head(act).fn, Head(act).args, plain)
         IN  IF one.raised # "none" THEN one
             ELSE ApplyMacros(Tail(act), one.plain)

----------------------------------------------------------------------------
(* zml_get_spans and combine_spans, advanced together. *)

\* The state of the span builder and of the serializer.
Builder ==
    [styles |-> styles, run |-> run, before |-> before, cstyles |-> cstyles,
     prev |-> prev, span |-> span, out |-> out, tail |-> tail, ptail |-> ptail,
     pending |-> pending, nspans |-> nspans]

\* spans.append(sp), and combine_spans' loop body for sp.
AppendSpan(m, sp) ==
    LET c == CombineSpan(m.cstyles, sp)
    IN  [m EXCEPT !.span = sp, !.prev = m.cstyles, !.cstyles = c.styles,
                  !.out = c.out, !.ptail = m.tail,
                  !.tail = IF Len(c.out) > 0 THEN c.out[Len(c.out)] ELSE @]

\* The loop over the tags of a group in zml_get_spans, for the tags the
\* pre-processor left in the text.
RECURSIVE ApplyTags(_, _)
ApplyTags(tags, m) ==
    IF tags = <<>> \/ m.pending # "none" THEN m
    ELSE LET tag == Head(tags)
             m1 == IF tag = <<"/">> THEN AppendSpan(m, FULL_RESET) ELSE m
             res == ApplyTag(tag, m1.styles)
         IN  IF res.raised # "none"
             THEN [m1 EXCEPT !.pending = res.raised]
             ELSE ApplyTags(Tail(tags), [m1 EXCEPT !.styles = res.styles])
\* An emission whose span shares the style map with the parser: the span
\* shows the map as the clearing of the derived foreground leaves it.
EmitRunSharedStyles(m) ==
    LET auto == ApplyAutoForeground(m.styles)
        after == IF auto.auto_fg
                 THEN [auto.styles EXCEPT !["foreground"] = None]
                 ELSE auto.styles
        m1 == AppendSpan([m EXCEPT !.before = m.styles], Span(m.run, after))
    IN  IF auto.raised # "none"
        THEN [m EXCEPT !.pending = auto.raised, !.run = <<>>]
        ELSE [m1 EXCEPT !.styles = after, !.run = <<>>, !.nspans = @ + 1]

\* The end of zml_get_spans' loop body for a plain run that is not empty.
EmitRun(m) ==
    LET auto == ApplyAutoForeground(m.styles)
        m1 == AppendSpan([m EXCEPT !.before = m.styles],
                         Span(m.run, auto.styles))
    IN  IF auto.raised # "none"
        THEN [m EXCEPT !.pending = auto.raised, !.run = <<>>]
        ELSE [m1 EXCEPT !.styles = IF auto.auto_fg
                                   THEN [auto.styles EXCEPT !["foreground"] = None]
                                   ELSE auto.styles,
                        !.run = <<>>,
                        !.nspans = @ + 1]

SetBuilder(m) ==
    /\ styles' = m.styles
    /\ run' = m.run
    /\ before' = m.before
    /\ cstyles' = m.cstyles
    /\ prev' = m.prev
    /\ span' = m.span
    /\ out' = m.out
    /\ tail' = m.tail
    /\ ptail' = m.ptail
    /\ pending' = m.pending
    /\ nspans' = m.nspans

NewBuilder ==
    [styles |-> GetStyleMap, run |-> <<>>, before |-> GetStyleMap,
     cstyles |-> GetStyleMap, prev |-> GetStyleMap, span |-> NoSpan,
     out |-> <<>>, tail |-> NoToken, ptail |-> NoToken, pending |-> "none",
     nspans |-> 0]

Event(kind, tag) == [kind |-> kind, tag |-> tag]

PaletteEvent(op, ctx, ignore, raised) ==
    [op |-> op, ctx |-> ctx, ignore |-> ignore, raised |-> raised]

GradientEvent(kind, args, result) ==
    [kind |-> kind, args |-> args, result |-> result]

ParseColorEvent(color, background, res) ==
    [color |-> color, background |-> background, res |-> res]

ColorEvent(fn, arg, res) == [fn |-> fn, arg |-> arg, res |-> res]

\* Palette(..., namespace=ns): no context yet.
NewPalette(ns) == [ctx |-> "none", ns |-> ns]

----------------------------------------------------------------------------
(* LRUCache (zenith/lru_cache.py). *)

\* LRUCache(2), and the keys and values given to it.
LRUCapacity == 2
CacheKeys == 1..(LRUCapacity + 1)
CacheValues == {"x", "y"}

CacheEvent(op, key, value, raised) ==
    [op |-> op, key |-> key, value |-> value, raised |-> raised]

Item(k, v) == [key |-> k, value |-> v]
Keys(c) == {c[i].key : i \in 1..Len(c)}
\* The place of the key `k` in the dict.
ValueOf(c, k) == CHOOSE i \in 1..Len(c) : c[i].key = k

\* OrderedDict.move_to_end(key)
MoveToEnd(c, k) ==
    SelectSeq(c, LAMBDA it : it.key # k) \o SelectSeq(c, LAMBDA it : it.key = k)

\* OrderedDict.__setitem__: a new key goes to the end, a known key keeps
\* its place.
DictSet(c, k, v) ==
    IF k \in Keys(c)
    THEN [i \in 1..Len(c) |-> IF c[i].key = k THEN Item(k, v) ELSE c[i]]
    ELSE Append(c, Item(k, v))
\* A __setitem__ that never evicts.
LruSetItemUnbounded(c, k, v) == MoveToEnd(DictSet(c, k, v), k)

\* LRUCache.__setitem__
LruSetItem(c, k, v) ==
    LET c1 == MoveToEnd(DictSet(c, k, v), k)
    IN  IF Len(c1) > LRUCapacity THEN Tail(c1) ELSE c1

\* LRUCache.__getitem__
LruGetItem(c, k) ==
    IF k \notin Keys(c)
    THEN [raised |-> "KeyError", cache |-> c, value |-> "none"]
    ELSE [raised |-> "none", cache |-> MoveToEnd(c, k),
          value |-> c[ValueOf(c, k)].value]

\* LRUCache.get(key): the default is None.
LruGet(c, k) ==
    [raised |-> "none", cache |-> c,
     value |-> IF k \in Keys(c) THEN c[ValueOf(c, k)].value ELSE "none"]

\* The order of last use after a use of `k`, over the keys `keys` that are
\* still cached.
Touch(u, k, keys) ==
    SelectSeq(SelectSeq(u, LAMBDA x : x # k) \o <<k>>, LAMBDA x : x \in keys)

\* cache[k] = v
CacheSet(k, v) ==
    /\ cache' = LruSetItem(cache, k, v)
    /\ used' = Touch(used, k, Keys(cache'))
    /\ lev' = CacheEvent("set", k, v, "none")
    /\ UNCHANGED <<zvars, palvars, gvars, cvars>>

\* cache[k]
CacheGetItem(k) ==
    LET r == LruGetItem(cache, k)
    IN  /\ cache' = r.cache
        /\ used' = IF r.raised = "none" THEN Touch(used, k, Keys(cache))
                    ELSE used
        /\ lev' = CacheEvent("getitem", k, r.value, r.raised)
        /\ UNCHANGED <<zvars, palvars, gvars, cvars>>

\* cache.get(k)
CacheGet(k) ==
    LET r == LruGet(cache, k)
    IN  /\ cache' = r.cache
        /\ used' = IF k \in Keys(cache) THEN Touch(used, k, Keys(cache))
                    ELSE used
        /\ lev' = CacheEvent("get", k, r.value, r.raised)
        /\ UNCHANGED <<zvars, palvars, gvars, cvars>>

\* k in cache
CacheContains(k) ==
    /\ lev' = CacheEvent("contains", k,
                         IF k \in Keys(cache) THEN "True" ELSE "False", "none")
    /\ UNCHANGED <<cache, used, zvars, palvars, gvars, cvars>>

----------------------------------------------------------------------------
(* Actions. *)

\* zml(markup, prefix=p, ctx=ctx) is called.
BeginZml(p) ==
    /\ pc # "run"
    /\ pc' = "run"
    /\ prefix' = p
    /\ pos' = "start"
    /\ closed' = FALSE
    /\ active' = <<>>
    /\ error' = "none"
    /\ SetBuilder(NewBuilder)
    /\ ev' = Event("begin", <<>>)
    /\ UNCHANGED <<aliases, macros, nregs>>
    /\ UNCHANGED xvars

\* The call raises `e`.
Raise(e) ==
    /\ pc' = "raised"
    /\ error' = e
    /\ UNCHANGED <<pos, closed, active, styles, run, before, cstyles, prev,
                   span, out, tail, ptail, pending, nspans>>

\* The next tag of the markup, inside a tag group.
FeedTag(t) ==
    /\ pc = "run"
    /\ LET tags == AliasTag(t, prefix, aliases)
           res == MacroTags(tags, active, prefix, macros)
       IN  IF res.raised # "none"
           THEN /\ Raise(res.raised)
                /\ ev' = Event("tag", t)
           ELSE /\ res.kept = <<>> \/ run = <<>>
                /\ pc' = "run"
                /\ error' = "none"
                /\ pos' = "in"
                /\ closed' = (closed /\ res.kept = <<>>)
                /\ active' = res.active
                /\ SetBuilder(ApplyTags(res.kept, Builder))
                /\ ev' = Event("tag", t)
    /\ UNCHANGED <<aliases, macros, nregs, prefix>>
    /\ UNCHANGED xvars

\* The plain run `p` that ends a group (p = "" when a tag group is followed
\* by another tag group or by the end of the markup).
FeedText(p, kind, max) ==
    /\ pc = "run"
    /\ ~closed
    /\ LET res == ApplyMacros(active, Text(p))
       IN  IF res.raised # "none"
           THEN /\ Raise(res.raised)
                /\ ev' = Event(kind, <<>>)
           ELSE /\ res.plain = Text("") \/ nspans + Len(run) < max
                /\ pc' = "run"
                /\ error' = "none"
                /\ pos' = "out"
                /\ run' = IF res.plain = Text("") \/ pending # "none"
                          THEN run ELSE Append(run, res.plain)
                /\ ev' = Event(kind, <<>>)
                /\ UNCHANGED <<closed, active, styles, before, cstyles, prev,
                               span, out, tail, ptail, pending, nspans>>
    /\ UNCHANGED <<aliases, macros, nregs, prefix>>
    /\ UNCHANGED xvars

FeedPlain(p, max) ==
    /\ pos \in {"start", "in"}
    /\ FeedText(p, "plain", max)

EmptyPlain(max) ==
    /\ pos = "in"
    /\ FeedText("", "empty", max)

\* The plain run of the pre-processed text ends (a tag group that keeps a
\* tag, or the end of the text, follows): zml_get_spans appends its span.
CloseRun ==
    /\ pc = "run"
    /\ pos = "out"
    /\ ~closed
    /\ run # <<>>
    /\ closed' = TRUE
    /\ SetBuilder(EmitRun(Builder))
    /\ ev' = Event("close", <<>>)
    /\ UNCHANGED <<aliases, macros, nregs, pc, prefix, pos, active, error>>
    /\ UNCHANGED xvars

\* The markup is exhausted: zml returns or raises.
EndZml ==
    /\ pc = "run"
    /\ pos \in {"start", "out"}
    /\ run = <<>>
    /\ pc' = IF pending # "none" THEN "raised" ELSE "done"
    /\ error' = pending
    /\ ev' = Event("end", <<>>)
    /\ UNCHANGED <<aliases, macros, nregs, prefix, pos, closed, active, styles,
                   run, before, cstyles, prev, span, out, tail, ptail, pending, nspans>>
    /\ UNCHANGED xvars

\* The variables of a finished call are dead once the context changes.
Forget ==
    /\ pc' = "idle"
    /\ prefix' = <<>>
    /\ pos' = "start"
    /\ closed' = FALSE
    /\ active' = <<>>
    /\ error' = "none"
    /\ SetBuilder(NewBuilder)

\* zml_alias(ctx=ctx, assign_unsetter=u, **{key: value})
ZmlAlias(key, value, u) ==
    /\ pc # "run"
    /\ nregs < MaxRegs
    /\ nregs' = nregs + 1
    /\ aliases' = ZmlAliasPairs(aliases, key, value, u)
    /\ Forget
    /\ ev' = Event("alias", key)
    /\ UNCHANGED macros
    /\ UNCHANGED xvars

\* @zml_macro_setter(ctx=ctx) on the function `fn`
ZmlMacro(fn) ==
    /\ pc # "run"
    /\ nregs < MaxRegs
    /\ nregs' = nregs + 1
    /\ macros' = ZmlMacroSetter(macros, fn)
    /\ Forget
    /\ ev' = Event("macro", fn)
    /\ UNCHANGED aliases
    /\ UNCHANGED xvars

\* A loop body that resolves the value of an alias again: it puts the
\* value back in front of the tags still to do.
AliasLoopBodyResolving(todo, aliased, pre, al) ==
    LET prefixed == ApplyPrefix(Head(todo), pre)
    IN  IF ~Contains(Head(todo), "*") /\ prefixed \in DOMAIN al
        THEN [todo |-> al[prefixed] \o Tail(todo), out |-> aliased]
        ELSE [todo |-> Tail(todo),
              out |-> aliased \o AliasTag(Head(todo), pre, al)]

\* The body of `for tag in tags.split()` in the first loop: the tags left
\* to do and `aliased` after it.
AliasLoopBody(todo, aliased, pre, al) ==
    [todo |-> Tail(todo), out |-> aliased \o AliasTag(Head(todo), pre, al)]

\* zml_pre_process(text, ctx=ctx) reaches the tag group `group` in its
\* first loop.
AliasBegin(group) ==
    /\ pc # "run"
    /\ apc # "loop"
    /\ apc' = "loop"
    /\ atodo' = group
    /\ aout' = <<>>
    /\ UNCHANGED <<zvars, lruvars, palvars, gvars, pcall, fcall, ecall>>

\* One turn of the loop over the tags of the group.
AliasStep ==
    /\ apc = "loop"
    /\ atodo # <<>>
    /\ LET body == AliasLoopBody(atodo, aout, <<>>, aliases)
       IN  /\ atodo' = body.todo
           /\ aout' = body.out
    /\ UNCHANGED <<apc, zvars, lruvars, palvars, gvars, pcall, fcall, ecall>>

\* The loop is through with the group.
AliasEnd ==
    /\ apc = "loop"
    /\ atodo = <<>>
    /\ apc' = "done"
    /\ UNCHANGED <<atodo, aout, zvars, lruvars, palvars, gvars, pcall, fcall, ecall>>

\* str.replace(old, new) on a text of characters: the occurrences of `old`
\* are taken from the left and do not overlap.
RECURSIVE StrReplace(_, _, _)
StrReplace(text, old, new) ==
    IF Len(text) < Len(old) THEN text
    ELSE IF SubSeq(text, 1, Len(old)) = old
         THEN new \o StrReplace(SubSeq(text, Len(old) + 1, Len(text)), old, new)
         ELSE <<Head(text)>> \o StrReplace(Tail(text), old, new)

\* The default of the parameter escape_replacements of zml.
EscapeReplacements == << <<"{", "{", "{", "{">>, <<"}", "}", "}", "}">> >>

\* zml_escape(text)
ZmlEscape(text) ==
    StrReplace(StrReplace(text, <<"[">>, <<"\\", "[">>), <<"]">>, <<"\\", "]">>)

\* _escape(text, replacements)
Escape(text, replacements) ==
    StrReplace(StrReplace(text, <<"\\", "[">>, replacements[1]),
               <<"\\", "]">>, replacements[2])

\* _unescape(text, replacements)
Unescape(text, replacements) ==
    StrReplace(StrReplace(text, replacements[1], <<"[">>),
               replacements[2], <<"]">>)

\* RE_MARKUP matches a text without brackets as one plain part.
IsPlainMarkup(markup) ==
    \A i \in 1..Len(markup) : markup[i] \notin {"[", "]"}

\* zml(markup) for a markup that is one plain part after _escape: the
\* loops of zml_pre_process copy it, zml_get_spans makes one span of the
\* default styles of it, combine_spans finds nothing new in the span and
\* writes its text, and _unescape runs over the text. Any other markup
\* goes through the tags, which this operator leaves to the zml actions.
ZmlPlain(markup) ==
    LET escaped == Escape(markup, EscapeReplacements)
    IN  IF IsPlainMarkup(escaped)
        THEN [plain |-> TRUE, text |-> Unescape(escaped, EscapeReplacements)]
        ELSE [plain |-> FALSE, text |-> <<>>]

\* zml(zml_escape(text)), called between zml calls.
EscapeCall(text) ==
    /\ pc # "run"
    /\ LET escaped == ZmlEscape(text)
           res == ZmlPlain(escaped)
       IN  /\ res.plain
           /\ ecall' = [text |-> text, escaped |-> escaped,
                        res |-> res.text, called |-> TRUE]
    /\ UNCHANGED <<zvars, lruvars, palvars, gvars, pcall, fcall, avars>>

\* parse_color(color, background), called on its own: no zml call is running.
ParseColorCall(color, background) ==
    /\ pc # "run"
    /\ pcall' = ParseColorEvent(color, background,
                                ParseColor(color, background))
    /\ UNCHANGED <<fcall, avars, ecall>>
    /\ UNCHANGED <<zvars, lruvars, palvars, gvars>>

\* Color.from_ansi(parse_color(index, background)), called on its own.
FromAnsiCall(index, background) ==
    LET parsed == ParseColor(<<index>>, background)
    IN  /\ pc # "run"
        /\ fcall' = ColorEvent("from_ansi",
                               [index |-> index, background |-> background],
                               IF parsed.raised # "none"
                               THEN [raised |-> parsed.raised, color |-> None]
                               ELSE FromAnsi(parsed.body))
        /\ UNCHANGED <<zvars, lruvars, palvars, gvars, pcall, avars, ecall>>

\* Color(rgb, is_background).contrast
ContrastCall(rgb, is_background) ==
    /\ pc # "run"
    /\ fcall' = ColorEvent("contrast", Color(rgb, is_background),
                           Contrast(Color(rgb, is_background)))
    /\ UNCHANGED <<zvars, lruvars, palvars, gvars, pcall, avars, ecall>>

----------------------------------------------------------------------------
(* The gradient macro (zenith/macros.py) and its lru_cache.  The macro is
   registered in the global context, whose alias table is `aliases`. *)

\* gradient(text, origin) with the method "shade", uncached: the error it
\* raises, or the text it returns, held as what the text is made from (the
\* plain text, and the colour and layer of the shades put into it).
Gradient(text, origin, al) ==
    LET is_background == StartsWith(origin, "@")
        tags == AliasTag(origin, <<>>, al)
        parsed == ParseColor(LStrip(tags[1], "@"), is_background)
        ansi == FromAnsi(parsed.body)
    IN  IF parsed.raised # "none" THEN [raised |-> parsed.raised]
        ELSE IF ansi.raised # "none" THEN [raised |-> ansi.raised]
        ELSE [raised |-> "none", text |-> text, color |-> ansi.color,
              unsetter |-> IF is_background THEN BG ELSE FG]

\* zml("[!gradient(origin)]text"): the call of the macro goes through its
\* lru_cache, which is keyed by the arguments and keeps no exception.
ZmlGradient(text, origin) ==
    LET key == <<text, origin>>
        hit == key \in DOMAIN gcache
        res == IF hit THEN gcache[key] ELSE Gradient(text, origin, aliases)
    IN  /\ pc # "run"
        /\ gcache' = IF hit \/ res.raised # "none" THEN gcache
                      ELSE [k \in DOMAIN gcache \cup {key} |->
                               IF k = key THEN res ELSE gcache[k]]
        /\ gres' = GradientEvent(IF res.raised # "none" THEN "raised"
                                 ELSE "call", key, res)
        /\ UNCHANGED <<zvars, lruvars, palvars, cvars>>

----------------------------------------------------------------------------
(* Palette (zenith/palette.py).  The palette is aliased into one of two
   contexts: "ctx", whose alias table is `aliases`, or "other". *)

\* The names of self._keys that are followed here, with their colours.
PaletteNames == << <<"primary">>, <<"error">> >>
PaletteHex(name) ==
    IF name = <<"primary">> THEN <<"#", "ff0000">> ELSE <<"#", "000000">>

\* Palette.update, for the shade 0 of every name: the items of
\* self._mapping in insertion order.
PaletteMapping(ns) ==
    LET RECURSIVE Items(_)
        Items(names) ==
            IF names = <<>> THEN <<>>
            ELSE << [key |-> ns \o Head(names),
                     value |-> PaletteHex(Head(names))],
                    [key |-> <<"@">> \o ns \o Head(names),
                     value |-> <<"@">> \o PaletteHex(Head(names))] >>
                 \o Items(Tail(names))
    IN  Items(PaletteNames)

\* A palette that never remembers having been aliased.
AlreadyAliasedNever(p, ignore_already_aliased) == FALSE

\* The test that opens Palette.alias.
AlreadyAliased(p, ignore_already_aliased) ==
    ~ignore_already_aliased /\ p.ctx # "none"

\* zml_alias(**self._mapping, ctx=ctx): the new alias table.
RECURSIVE AliasMapping(_, _)
AliasMapping(al, mapping) ==
    IF mapping = <<>> THEN al
    ELSE AliasMapping(
             ZmlAliasPairs(al, Head(mapping).key, <<Head(mapping).value>>, TRUE),
             Tail(mapping))

\* del aliases[key]
DictDel(al, key) == [k \in DOMAIN al \ {key} |-> al[k]]

\* The loop of Palette.unalias: the alias table it leaves, and the error
\* that ended it.
RECURSIVE UnaliasMapping(_, _)
UnaliasMapping(al, mapping) ==
    IF mapping = <<>> THEN [raised |-> "none", aliases |-> al]
    ELSE LET key == Head(mapping).key
             unsetter == <<"/">> \o key
         IN  IF key \notin DOMAIN al
             THEN [raised |-> "KeyError", aliases |-> al]
             ELSE IF unsetter \notin DOMAIN DictDel(al, key)
             THEN [raised |-> "KeyError", aliases |-> DictDel(al, key)]
             ELSE UnaliasMapping(DictDel(DictDel(al, key), unsetter),
                                 Tail(mapping))

\* The alias table of a context.
AliasesOf(c) == IF c = "other" THEN other ELSE aliases

\* The part of the zml state that a call on the palette leaves alone.
PaletteFrame ==
    /\ pc # "run"
    /\ Forget
    /\ ev' = Event("palette", <<>>)
    /\ UNCHANGED <<macros, nregs, lruvars, gvars, cvars>>

\* Palette(primary, namespace=ns)
PaletteInit(ns) ==
    /\ pal' = NewPalette(ns)
    /\ pev' = PaletteEvent("init", "none", FALSE, "none")
    /\ PaletteFrame
    /\ UNCHANGED <<aliases, other, snap>>

\* pal.alias(c, ignore_already_aliased=ignore)
PaletteAlias(c, ignore) ==
    /\ IF AlreadyAliased(pal, ignore)
       THEN /\ pev' = PaletteEvent("alias", c, ignore, "ValueError")
            /\ UNCHANGED <<pal, aliases, other, snap>>
       ELSE /\ pal' = [pal EXCEPT !.ctx = c]
            /\ aliases' = IF c = "ctx"
                          THEN AliasMapping(aliases, PaletteMapping(pal.ns))
                          ELSE aliases
            /\ other' = IF c = "other"
                        THEN AliasMapping(other, PaletteMapping(pal.ns))
                        ELSE other
            /\ snap' = <<aliases, other>>
            /\ pev' = PaletteEvent("alias", c, ignore, "none")
    /\ PaletteFrame

\* pal.unalias()
PaletteUnalias ==
    /\ IF pal.ctx = "none"
       THEN /\ pev' = PaletteEvent("unalias", "none", FALSE, "none")
            /\ UNCHANGED <<pal, aliases, other, snap>>
       ELSE LET r == UnaliasMapping(AliasesOf(pal.ctx), PaletteMapping(pal.ns))
            IN  /\ aliases' = IF pal.ctx = "ctx" THEN r.aliases ELSE aliases
                /\ other' = IF pal.ctx = "other" THEN r.aliases ELSE other
                /\ pal' = IF r.raised = "none" THEN [pal EXCEPT !.ctx = "none"]
                          ELSE pal
                /\ pev' = PaletteEvent("unalias", pal.ctx, FALSE, r.raised)
                /\ UNCHANGED snap
    /\ PaletteFrame

\* zml_context(), and no call running.
Init ==
    /\ aliases = <<>>
    /\ macros = <<>>
    /\ nregs = 0
    /\ pc = "idle"
    /\ prefix = <<>>
    /\ pos = "start"
    /\ closed = FALSE
    /\ active = <<>>
    /\ error = "none"
    /\ styles = GetStyleMap
    /\ run = <<>>
    /\ before = GetStyleMap
    /\ cstyles = GetStyleMap
    /\ prev = GetStyleMap
    /\ span = NoSpan
    /\ out = <<>>
    /\ tail = NoToken
    /\ ptail = NoToken
    /\ pending = "none"
    /\ nspans = 0
    /\ ev = Event("init", <<>>)
    /\ cache = <<>>
    /\ used = <<>>
    /\ lev = CacheEvent("init", 0, "none", "none")
    /\ pal = NewPalette(<<>>)
    /\ other = <<>>
    /\ snap = << <<>>, <<>> >>
    /\ pev = PaletteEvent("init", "none", FALSE, "none")
    /\ gcache = <<>>
    /\ gres = GradientEvent("init", <<>>, [raised |-> "none"])
    /\ pcall = ParseColorEvent(<<>>, FALSE, [raised |-> "none", body |-> <<>>])
    /\ fcall = ColorEvent("init", None, None)
    /\ apc = "idle"
    /\ atodo = <<>>
    /\ aout = <<>>
    /\ ecall = [text |-> <<>>, escaped |-> <<>>, res |-> <<>>, called |-> FALSE]

----------------------------------------------------------------------------
(* Inputs. *)

Plains == {"a"}

\* Built-in tags: the markup of the serializer's specification.
StyleTags ==
    { <<"bold">>, <<"/", "bold">>, <<"italic">>, <<"red">>, <<"/", "fg">>,
      <<"~", "u1">>, <<"/", "~">>, <<"/">> }

\* The markup of the specification of automatic foregrounds.
AutoTags ==
    { <<"invert">>, <<"/", "invert">>, <<"red">>, <<"@", "black">>,
      <<"/", "fg">>, <<"/", "bg">> }

NoPrefix == <<>>
UiPrefix == <<"ui", "-">>

\* Tags, alias pairs and macro functions of the context's specification.
CtxTags ==
    { <<"/">>, <<"foreground">>,
      <<"test">>, <<"ui", "_", "test">>, <<"ui", "-", "test">>,
      <<"outer">>,
      <<"!", "upper">>, <<"/", "!", "upper">>, <<"!", "ui", "-", "upper">>,
      <<"!", "ui", "_", "upper">> }

MacroFns == {UiUpper}

AliasPairs ==
    { [key |-> <<"test">>, value |-> << <<"red">>, <<"bold">> >>, u |-> TRUE],
      [key |-> <<"ui", "_", "test">>, value |-> << <<"bold">> >>, u |-> FALSE],
      [key |-> <<"outer">>, value |-> << <<"test">> >>, u |-> FALSE] }

NextStyle ==
    \/ BeginZml(NoPrefix)
    \/ \E t \in StyleTags : FeedTag(t)
    \/ \E p \in Plains : FeedPlain(p, MaxSpans)
    \/ EmptyPlain(MaxSpans)
    \/ CloseRun
    \/ EndZml

NextAuto ==
    \/ BeginZml(NoPrefix)
    \/ \E t \in AutoTags : FeedTag(t)
    \/ \E p \in Plains : FeedPlain(p, MaxAutoSpans)
    \/ EmptyPlain(MaxAutoSpans)
    \/ CloseRun
    \/ EndZml

Next ==
    \/ \E a \in AliasPairs : ZmlAlias(a.key, a.value, a.u)
    \/ \E fn \in MacroFns : ZmlMacro(fn)
    \/ \E p \in {NoPrefix, UiPrefix} : BeginZml(p)
    \/ \E t \in CtxTags : FeedTag(t)
    \/ \E p \in Plains : FeedPlain(p, MaxCtxSpans)
    \/ EmptyPlain(MaxCtxSpans)
    \/ CloseRun
    \/ EndZml

NextLRU ==
    \/ \E k \in CacheKeys, v \in CacheValues : CacheSet(k, v)
    \/ \E k \in CacheKeys : CacheGetItem(k)
    \/ \E k \in CacheKeys : CacheGet(k)
    \/ \E k \in CacheKeys : CacheContains(k)

\* Namespaces of palettes, and an alias that someone else registers.
Namespaces == {<<>>, <<"ui", "_">>}
PalettePairs ==
    { [key |-> <<"primary">>, value |-> << <<"red">> >>, u |-> TRUE] }

NextPalette ==
    \/ \E ns \in Namespaces : PaletteInit(ns)
    \/ \E c \in {"ctx", "other"}, ignore \in BOOLEAN : PaletteAlias(c, ignore)
    \/ PaletteUnalias
    \/ \E a \in PalettePairs : ZmlAlias(a.key, a.value, a.u)

\* Aliases registered with their unsetters, and the tags that use them.
UnsetPairs ==
    { [key |-> <<"test">>, value |-> << <<"red">>, <<"bold">> >>, u |-> TRUE],
      [key |-> <<"shout">>,
       value |-> << <<"!", "ui", "-", "upper">>, <<"bold">> >>, u |-> TRUE] }

UnsetTags ==
    { <<"test">>, <<"/", "test">>, <<"shout">>, <<"/", "shout">> }

NextUnset ==
    \/ \E a \in UnsetPairs : ZmlAlias(a.key, a.value, a.u)
    \/ \E fn \in MacroFns : ZmlMacro(fn)
    \/ BeginZml(NoPrefix)
    \/ \E t \in UnsetTags : FeedTag(t)
    \/ \E p \in Plains : FeedPlain(p, MaxCtxSpans)
    \/ EmptyPlain(MaxCtxSpans)
    \/ CloseRun
    \/ EndZml

\* Two macros, the tags that set and unset them, a flag and the full reset.
MacroPoolFns == {UiUpper, NotAMacro}
MacroPoolTags ==
    { <<"!", "ui", "-", "upper">>, <<"!", "not", "-", "a", "-", "macro">>,
      <<"/", "!", "ui", "-", "upper">>, <<"bold">>, <<"/">> }

NextMacro ==
    \/ \E fn \in MacroPoolFns : ZmlMacro(fn)
    \/ BeginZml(NoPrefix)
    \/ \E t \in MacroPoolTags : FeedTag(t)
    \/ \E p \in Plains : FeedPlain(p, MaxAutoSpans)
    \/ EmptyPlain(MaxAutoSpans)
    \/ CloseRun
    \/ EndZml

\* Flag tags and their unsetters.
FlagTags ==
    { <<"bold">>, <<"/", "bold">>, <<"italic">>, <<"/", "italic">>,
      <<"fast", "_", "blink">>, <<"fast", "-", "blink">>,
      <<"/", "fast", "-", "blink">> }

NextFlag ==
    \/ BeginZml(NoPrefix)
    \/ \E t \in FlagTags : FeedTag(t)
    \/ \E p \in Plains : FeedPlain(p, MaxCtxSpans)
    \/ EmptyPlain(MaxCtxSpans)
    \/ CloseRun
    \/ EndZml

\* Decimal colour indices as tags of both layers, and the arguments given
\* to parse_color.
IndexLexemes == {"0", "7", "8", "15", "16", "255", "256", "300", "1000"}
ColorTags ==
    {<<d>> : d \in IndexLexemes} \cup {<<"@", d>> : d \in IndexLexemes}
ColorArgs ==
    {<<d>> : d \in IndexLexemes} \cup
    { <<"#", "ff0000">>, <<"255", ";", "0", ";", "0">>,
      <<"#", "000000">>, <<"0", ";", "0", ";", "0">>,
      <<"ff0000">>, <<"000000">>, <<"red">> }

NextColor ==
    \/ BeginZml(NoPrefix)
    \/ \E t \in ColorTags : FeedTag(t)
    \/ EmptyPlain(MaxCtxSpans)
    \/ EndZml
    \/ \E c \in ColorArgs, b \in BOOLEAN : ParseColorCall(c, b)

\* Texts and origins of gradients, and the aliases an origin may name.
GradientTexts == {"a", "b"}
GradientOrigins == {<<"primary">>, <<"red">>, <<"black">>}
GradientPairs ==
    { [key |-> <<"primary">>, value |-> << <<"red">> >>, u |-> TRUE],
      [key |-> <<"primary">>, value |-> << <<"black">> >>, u |-> TRUE] }

NextCache ==
    \/ \E a \in GradientPairs : ZmlAlias(a.key, a.value, a.u)
    \/ \E t \in GradientTexts, o \in GradientOrigins : ZmlGradient(t, o)

\* Colour indices of the palette and channel values of colours.
PaletteIndexLexemes == {"0", "1", "7", "8", "9", "15", "16", "141", "255"}
Channels == {0, 35, 128, 135, 175, 245, 255}

NextFn ==
    \/ \E d \in PaletteIndexLexemes, b \in BOOLEAN : FromAnsiCall(d, b)
    \/ \E r, g, b \in Channels, bg \in BOOLEAN : ContrastCall(<<r, g, b>>, bg)

\* The markup of automatic foregrounds, with the full reset.
SpanTags == AutoTags \cup { <<"/">> }

NextSpan ==
    \/ BeginZml(NoPrefix)
    \/ \E t \in SpanTags : FeedTag(t)
    \/ \E p \in Plains : FeedPlain(p, MaxAutoSpans)
    \/ EmptyPlain(MaxAutoSpans)
    \/ CloseRun
    \/ EndZml

\* Colour tags behind a slash, with a colour, a layer-clear and a flag.
SlashTags ==
    { <<"/", "red">>, <<"/", "141">>, <<"/", "@", "red">>,
      <<"@", "black">>, <<"/", "fg">>, <<"bold">> }

NextSlash ==
    \/ BeginZml(NoPrefix)
    \/ \E t \in SlashTags : FeedTag(t)
    \/ \E p \in Plains : FeedPlain(p, MaxCtxSpans)
    \/ EmptyPlain(MaxCtxSpans)
    \/ CloseRun
    \/ EndZml

\* Aliases that name themselves or each other, and the groups that use
\* them.
CyclicPairs ==
    { [key |-> <<"self">>, value |-> << <<"self">>, <<"bold">> >>, u |-> FALSE],
      [key |-> <<"ping">>, value |-> << <<"pong">> >>, u |-> FALSE],
      [key |-> <<"pong">>, value |-> << <<"ping">> >>, u |-> FALSE] }
CyclicGroups ==
    LET tags == { <<"self">>, <<"ping">>, <<"pong">>, <<"bold">> }
    IN  {<<t>> : t \in tags} \cup {<<t1, t2>> : t1 \in tags, t2 \in tags}

\* zml_alias between calls of zml_pre_process.
NextAlias ==
    \/ \E a \in CyclicPairs : apc # "loop" /\ ZmlAlias(a.key, a.value, a.u)
    \/ \E g \in CyclicGroups : AliasBegin(g)
    \/ AliasStep
    \/ AliasEnd

\* Plain texts over the characters of the markup syntax and of the escape
\* replacements.
MaxTextLen == 3
Texts ==
    LET alphabet == {"[", "]", "\\", "{", "}", "a"}
    IN  UNION { [1..n -> alphabet] : n \in 0..MaxTextLen }

NextEscape == \E t \in Texts : EscapeCall(t)

Spec == Init /\ [][Next]_vars

SpecStyle == Init /\ [][NextStyle]_vars

SpecAuto == Init /\ [][NextAuto]_vars

SpecUnset == Init /\ [][NextUnset]_vars

SpecMacro == Init /\ [][NextMacro]_vars

SpecFlag == Init /\ [][NextFlag]_vars

SpecColor == Init /\ [][NextColor]_vars

SpecCache == Init /\ [][NextCache]_vars

SpecFn == Init /\ [][NextFn]_vars

SpecSpan == Init /\ [][NextSpan]_vars

SpecSlash == Init /\ [][NextSlash]_vars

\* A loop that has started runs on: Python runs the call to its end.
SpecAliasLive ==
    Init /\ [][NextAlias]_vars /\ WF_vars(AliasStep) /\ WF_vars(AliasEnd)

SpecEscape == Init /\ [][NextEscape]_vars

SpecLRU == Init /\ [][NextLRU]_vars

SpecPalette == Init /\ [][NextPalette]_vars

----------------------------------------------------------------------------
(* Properties of the serializer, under SpecStyle. *)

NonLinkKeys == StyleKeySet \ {"hyperlink"}
CloseLink == Osc8(StrVal(<<>>))

\* The last step of combine_spans serialized a text span.
TextStep == nspans > 0 /\ ~span.reset

IsReset(tok) ==
    tok.t = "sgr" /\ \E j \in 1..Len(tok.codes) : tok.codes[j].op = "reset"

\* The attributes for which the tokens `o` carry a code of kind `op`.
CodedAttrs(o, op) ==
    {k \in StyleKeySet :
        \E i \in 1..Len(o) :
            /\ o[i].t = "sgr"
            /\ \E j \in 1..Len(o[i].codes) :
                   o[i].codes[j].op = op /\ o[i].codes[j].attr = k}

\* C1, as stated: when zml returns with a non-hyperlink attribute still
\* active in the serializer's tracked style, the output ends with the full
\* reset ESC[0m.
C1_TrailingReset ==
    (pc = "done" /\ nspans > 0
        /\ \E k \in NonLinkKeys : Truthy(cstyles[k])) => IsReset(tail)

\* C1, amended: the serializer emits ESC[0m for a FULL_RESET sentinel and at
\* no other place; it appends nothing after the last span, so an output
\* whose last element is a text span ends with that span's text, or with the
\* closing OSC8 of the link the span opened, whatever attributes are still
\* active.
C1_NoTrailingReset ==
    /\ (\E i \in 1..Len(out) : IsReset(out[i])) => span.reset
    /\ (pc = "done" /\ TextStep) =>
           /\ tail \in {Lit(span.text), CloseLink}
           /\ tail = out[Len(out)]

\* A call returned with bold and a foreground still active, its output
\* ending with the text of the last span.
C1_Witness ==
    /\ pc = "done"
    /\ TextStep
    /\ Truthy(cstyles["bold"])
    /\ cstyles["foreground"] # None
    /\ tail = Lit(span.text)

\* C2: serializing a span emits set codes exactly for the non-hyperlink
\* attributes that are truthy and differ from the accumulated state, each
\* with the span's value, and unset codes exactly for the attributes that
\* were active and are now falsy, batched into one sequence that comes first;
\* an attribute equal to the accumulated state gets no code.
C2_DiffCodes ==
    TextStep =>
        /\ CodedAttrs(out, "set") =
               {k \in NonLinkKeys :
                   Truthy(span.attrs[k]) /\ span.attrs[k] # prev[k]}
        /\ CodedAttrs(out, "unset") =
               {k \in NonLinkKeys :
                   Truthy(prev[k]) /\ ~Truthy(span.attrs[k])}
        /\ \A i \in 1..Len(out) : \A j \in 1..Len(out[i].codes) :
               /\ out[i].codes[j].op = "set" =>
                      out[i].codes[j].val = span.attrs[out[i].codes[j].attr]
               /\ out[i].codes[j].op = "unset" =>
                      /\ i = 1
                      /\ \A l \in 1..Len(out[i].codes) :
                             out[i].codes[l].op = "unset"

\* One span sets a code, unsets another and keeps an active attribute.
C2_Witness ==
    /\ TextStep
    /\ CodedAttrs(out, "set") # {}
    /\ CodedAttrs(out, "unset") # {}
    /\ \E k \in NonLinkKeys : Truthy(prev[k]) /\ span.attrs[k] = prev[k]

\* C3, as stated: between adjacent spans that carry the same hyperlink no
\* OSC8 sequence is emitted; the link opened before the first of them is not
\* closed until the link is unset or the output ends.
C3_LinkSpansStayOpen ==
    (TextStep /\ Truthy(span.attrs["hyperlink"])
        /\ prev["hyperlink"] = span.attrs["hyperlink"]) =>
            /\ ptail # CloseLink
            /\ \A i \in 1..Len(out) : out[i].t # "osc8"

\* C4, as stated: on FULL_RESET the serializer emits ESC[0m and resets every
\* tracked attribute except the hyperlink, whose tracked value is preserved.
C4_ResetKeepsLink ==
    span.reset =>
        /\ out = <<Sgr(<<ResetCode>>)>>
        /\ \A k \in NonLinkKeys : cstyles[k] = GetStyleMap[k]
        /\ cstyles["hyperlink"] = prev["hyperlink"]

\* C4, amended: on FULL_RESET the serializer emits ESC[0m and resets every
\* tracked attribute, the hyperlink included, to its default; the `/` tag
\* that produced the sentinel clears the span builder's hyperlink as well, so
\* the text after the reset carries no link.
C4_ResetClearsAll ==
    /\ span.reset =>
           /\ out = <<Sgr(<<ResetCode>>)>>
           /\ cstyles = GetStyleMap
    /\ (pc = "run" /\ ev = Event("tag", <<"/">>)) =>
           /\ span.reset
           /\ styles = GetStyleMap

\* A reset that came while a hyperlink was tracked.
C4_Witness ==
    /\ span.reset
    /\ Truthy(prev["hyperlink"])
    /\ ev = Event("tag", <<"/">>)

----------------------------------------------------------------------------
(* Properties of the automatic foreground, under SpecAuto. *)

\* C5: a plain run emitted with foreground unset and background set (invert
\* off) gets as foreground the background's contrast color, off-black or
\* off-white, as a foreground-layer color; with invert on and foreground set,
\* background unset, its background is the foreground's contrast color as a
\* background-layer color; with both layers set, or neither, the span has
\* the layers of the style map as they were.
C5_AutoForeground ==
    TextStep =>
        LET inv == Truthy(before["invert"])
            fg == before["foreground"]
            bg == before["background"]
        IN  /\ (~inv /\ fg = None /\ bg # None) =>
                   /\ span.attrs["foreground"] = Color(Contrast(bg).rgb, FALSE)
                   /\ span.attrs["foreground"].rgb \in {OFF_BLACK, OFF_WHITE}
                   /\ span.attrs["background"] = bg
            /\ (inv /\ fg # None /\ bg = None) =>
                   /\ span.attrs["background"] = Color(Contrast(fg).rgb, TRUE)
                   /\ span.attrs["background"].rgb \in {OFF_BLACK, OFF_WHITE}
                   /\ span.attrs["foreground"] = fg
            /\ ((fg = None) <=> (bg = None)) =>
                   /\ span.attrs["foreground"] = fg
                   /\ span.attrs["background"] = bg

\* An inverted run with only a foreground got an off-black background.
C5_Witness ==
    /\ TextStep
    /\ Truthy(before["invert"])
    /\ before["foreground"] # None
    /\ before["background"] = None
    /\ span.attrs["background"] = Color(OFF_BLACK, TRUE)

----------------------------------------------------------------------------
(* Properties of the pre-processor and of the context, under Spec. *)

\* The span builder and serializer after the step.
BuilderNext ==
    [styles |-> styles', run |-> run', before |-> before',
     cstyles |-> cstyles', prev |-> prev', span |-> span', out |-> out',
     tail |-> tail', ptail |-> ptail', pending |-> pending',
     nspans |-> nspans']

\* The step feeds a tag to a running call.
TagStep == pc = "run" /\ ev'.kind = "tag"

IsMacroUnset(tag) == Len(tag) >= 2 /\ tag[1] = "/" /\ tag[2] = "!"
IsMacroSet(tag) == Len(tag) >= 1 /\ tag[1] = "!"

ActiveNames(act) == {act[i].name : i \in 1..Len(act)}

\* C6: a tag `/!name` succeeds only if the macro is active in this parse, and
\* then removes it from the active set and nothing else; otherwise the call
\* fails with ZmlSemanticsError, whether or not the macro is registered.
C6_MacroUnset ==
    [][(TagStep /\ IsMacroUnset(ev'.tag)) =>
          LET name == Tail(ev'.tag)
          IN  IF name \in ActiveNames(active)
              THEN /\ pc' = "run"
                   /\ error' = "none"
                   /\ ActiveNames(active') = ActiveNames(active) \ {name}
                   /\ BuilderNext = Builder
              ELSE /\ pc' = "raised"
                   /\ error' = "ZmlSemanticsError"]_vars

\* The unsetter of a macro that is registered under the prefix of the call,
\* but was not activated, has failed.
C6_Witness ==
    /\ pc = "raised"
    /\ error = "ZmlSemanticsError"
    /\ ev = Event("tag", <<"/", "!", "upper">>)
    /\ prefix = UiPrefix
    /\ <<"!", "ui", "-", "upper">> \in DOMAIN macros

\* The names of the style flags, as tags.
FlagNames == {KeyLexemes(FlagKeys[i]) : i \in 1..Len(FlagKeys)}

\* Whether `tag` is one of the tags C7 names as known: a style flag or its
\* unsetter, the full reset, a layer-clear, a color literal or name, a
\* hyperlink marker, a registered macro, the unsetter of a macro, or a
\* resolvable alias.
KnownTag(tag, pre, al, mac) ==
    LET base == LStrip(LStrip(tag, "/"), "@")
    IN  \/ tag = <<"/">>
        \/ LStrip(tag, "/") \in FlagNames
        \/ tag \in {<<"/", "fg">>, <<"/", "bg">>}
        \/ ReColorMatch(base) \/ base \in NamedColors
        \/ StartsWith(LStrip(tag, "/"), "~")
        \/ IsMacroSet(tag) /\ ApplyPrefix(ParseMacro(tag).name, pre) \in DOMAIN mac
        \/ IsMacroUnset(tag)
        \/ ApplyPrefix(tag, pre) \in DOMAIN al

\* C7, as stated: a tag that is none of the known tags makes the call fail
\* with ZmlNameError: the pre-processor raises it, or the span builder does.
C7_UnknownTagRaises ==
    (ev.kind = "tag" /\ ~KnownTag(ev.tag, prefix, aliases, macros)) =>
        \/ pc = "raised" /\ error = "ZmlNameError"
        \/ pc = "run" /\ pending = "ZmlNameError"


\* What the span builder and serializer are after the tags `tags` have gone
\* through the second loop of the pre-processor and the tags it keeps have
\* been applied; the step is unconstrained if the second loop raises.
AppliesTags(tags) ==
    LET res == MacroTags(tags, active, prefix, macros)
    IN  res.raised = "none" =>
            /\ pc' = "run"
            /\ active' = res.active
            /\ BuilderNext = ApplyTags(res.kept, Builder)

\* The step activates the macro `fn` under the name of the tag.
ActivatesMacro(tag, fn) ==
    /\ pc' = "run"
    /\ \E i \in 1..Len(active') :
           active'[i].name = ParseMacro(tag).name /\ active'[i].fn = fn

\* P+t: the prefix P put in front of the name of the reference t, after its
\* leading `@` or `!` if it has one.
Prefixed(t, P) ==
    IF Len(t) > 0 /\ t[1] \in {"@", "!"}
    THEN <<t[1]>> \o P \o Tail(t)
    ELSE P \o t

\* C8, as stated: under a non-empty prefix P a reference t resolves to the
\* entry under P+t when there is one, and otherwise to the entry under t.
C8_PrefixFallback ==
    [][(TagStep /\ prefix # <<>> /\ ~IsMacroUnset(ev'.tag)) =>
          LET t == ev'.tag
              p == Prefixed(t, prefix)
          IN  IF IsMacroSet(t)
              THEN /\ p \in DOMAIN macros => ActivatesMacro(t, macros[p])
                   /\ (p \notin DOMAIN macros /\ t \in DOMAIN macros) =>
                          ActivatesMacro(t, macros[t])
              ELSE /\ p \in DOMAIN aliases => AppliesTags(aliases[p])
                   /\ (p \notin DOMAIN aliases /\ t \in DOMAIN aliases) =>
                          AppliesTags(aliases[t])]_vars

\* C8, amended: under a non-empty prefix P a reference t resolves to the
\* entry under P+t (P after a leading `@` or `!`) when there is one; there is
\* no fallback to the entry under t: without an entry under P+t an alias
\* reference is applied as the tag it is written as, and a macro reference
\* fails with ZmlNameError.
C8_PrefixOnly ==
    [][(TagStep /\ prefix # <<>> /\ ~IsMacroUnset(ev'.tag)) =>
          LET t == ev'.tag
              p == Prefixed(t, prefix)
          IN  IF IsMacroSet(t)
              THEN IF p \in DOMAIN macros
                   THEN ActivatesMacro(t, macros[p])
                   ELSE pc' = "raised" /\ error' = "ZmlNameError"
              ELSE IF p \in DOMAIN aliases
                   THEN AppliesTags(aliases[p])
                   ELSE AppliesTags(<<t>>)]_vars

\* Under the prefix `ui-` the tag `test` took the entry of `ui-test`, bold,
\* although `test` is an alias too (of red and bold).
C8_Witness ==
    /\ pc = "run"
    /\ prefix = UiPrefix
    /\ ev = Event("tag", <<"test">>)
    /\ {<<"test">>, <<"ui", "-", "test">>} \subseteq DOMAIN aliases
    /\ Truthy(styles["bold"])
    /\ styles["foreground"] = None
    /\ pending = "none"

\* The value of the alias `tags`, with the aliases in it expanded `depth`
\* levels deep.
RECURSIVE FullExpand(_, _, _, _)
FullExpand(tags, pre, al, depth) ==
    IF tags = <<>> THEN <<>>
    ELSE LET p == ApplyPrefix(Head(tags), pre)
         IN  (IF depth > 0 /\ p \in DOMAIN al
              THEN FullExpand(al[p], pre, al, depth - 1)
              ELSE <<Head(tags)>>)
                 \o FullExpand(Tail(tags), pre, al, depth)

\* C9, as stated: an alias applies the style of its fully expanded list of
\* tags, the aliases named in its value expanded too.
C9_RecursiveAliases ==
    [][(TagStep /\ ApplyPrefix(ev'.tag, prefix) \in DOMAIN aliases) =>
          AppliesTags(FullExpand(<<ev'.tag>>, prefix, aliases,
                                 Cardinality(DOMAIN aliases)))]_vars

\* C9, amended: alias resolution is a single pass: the value of an alias is
\* inserted as it is registered and the names in it are not looked up; a
\* name in it that is an alias but no built-in tag makes the span builder
\* raise ZmlNameError.
C9_SinglePass ==
    [][(TagStep /\ ApplyPrefix(ev'.tag, prefix) \in DOMAIN aliases) =>
          LET value == aliases[ApplyPrefix(ev'.tag, prefix)]
          IN  /\ AppliesTags(value)
              /\ (\E i \in 1..Len(value) :
                      /\ ApplyPrefix(value[i], prefix) \in DOMAIN aliases
                      /\ ~KnownTag(value[i], prefix, <<>>, macros)) =>
                     pending' = "ZmlNameError"]_vars

\* The alias `outer` of the alias `test` was used, and `test` was not
\* resolved.
C9_Witness ==
    /\ pc = "run"
    /\ prefix = <<>>
    /\ ev = Event("tag", <<"outer">>)
    /\ {<<"outer">>, <<"test">>} \subseteq DOMAIN aliases
    /\ pending = "ZmlNameError"
    /\ styles = GetStyleMap

NoUnderscoreKeys(al, mac) ==
    \A k \in DOMAIN al \cup DOMAIN mac : ~Contains(k, "_")

\* C10, as stated: no stored key contains an underscore, and a tag written
\* with underscores does what its hyphenated spelling does.
C10_NormalizedLookup ==
    [][/\ NoUnderscoreKeys(aliases', macros')
       /\ (TagStep /\ Contains(ev'.tag, "_")) =>
              LET h == Replace(ev'.tag, "_", "-")
                  p == ApplyPrefix(h, prefix)
              IN  IF IsMacroSet(h)
                  THEN p \in DOMAIN macros => ActivatesMacro(ev'.tag, macros[p])
                  ELSE p \in DOMAIN aliases => AppliesTags(aliases[p])]_vars

\* C10, amended: names are normalized when stored only: no stored key
\* contains an underscore, and since lookup takes the tag as written, a tag
\* written with underscores resolves to no alias and to no macro: an alias
\* reference is applied as the tag it is written as, and a macro reference
\* fails with ZmlNameError.
C10_NormalizedStorageOnly ==
    [][/\ NoUnderscoreKeys(aliases', macros')
       /\ (TagStep /\ Contains(ev'.tag, "_") /\ ~IsMacroUnset(ev'.tag)) =>
              IF IsMacroSet(ev'.tag)
              THEN pc' = "raised" /\ error' = "ZmlNameError"
              ELSE AppliesTags(<<ev'.tag>>)]_vars

\* The tag `ui_test` was not resolved although `ui-test`, registered as
\* `ui_test`, is an alias.
C10_Witness ==
    /\ pc = "run"
    /\ prefix = <<>>
    /\ ev = Event("tag", <<"ui", "_", "test">>)
    /\ <<"ui", "-", "test">> \in DOMAIN aliases
    /\ pending = "ZmlNameError"
    /\ ~Truthy(styles["bold"])
\* C26, as stated: after tags that were applied without error, each of the
\* nine flags is a boolean, foreground and background are each a Color or
\* unset, and hyperlink is a string.
C26_WellTypedStyles ==
    pending = "none" =>
        /\ \A i \in 1..Len(FlagKeys) : styles[FlagKeys[i]].kind = "bool"
        /\ styles["foreground"].kind \in {"none", "color"}
        /\ styles["background"].kind \in {"none", "color"}
        /\ styles["hyperlink"].kind = "str"

----------------------------------------------------------------------------
(* Properties of the alias unsetters, under SpecUnset. *)

\* What the part `part` of an alias's value turned on is off: its flag is
\* false, its colour layer is unset, its macro is not active.
PartIsOff(part) ==
    IF StartsWith(part, "!") THEN ~IsActive(active, part)
    ELSE IF part \in NamedColors \/ ReColorMatch(part)
    THEN styles[IF StartsWith(part, "@") THEN "background" ELSE "foreground"]
             = None
    ELSE ~Truthy(styles[StyleKeyOf(part)])

\* C11, as stated: for an alias name -> value registered with its unsetter,
\* `[name]` and then `[/name]` leaves every flag, colour and macro of the
\* value off.
C11_UnsetterUndoesAlias ==
    [][\A a \in UnsetPairs :
          (/\ pc = "run" /\ pending = "none"
           /\ ev = Event("tag", a.key)
           /\ a.key \in DOMAIN aliases /\ aliases[a.key] = a.value
           /\ <<"/">> \o a.key \in DOMAIN aliases
           /\ FeedTag(<<"/">> \o a.key)) =>
              (/\ pc' = "run" /\ pending' = "none"
               /\ \A i \in 1..Len(a.value) : PartIsOff(a.value[i])')]_vars

----------------------------------------------------------------------------
(* Properties of the macros and of the full reset, under SpecMacro. *)

\* The macros of `act` applied one after the other, the first one first.
RECURSIVE Successive(_, _)
Successive(act, plain) ==
    IF act = <<>> THEN plain
    ELSE Successive(Tail(act),
                    MacroCall(Head(act).fn, Head(act).args, plain).plain)

\* C16: a macro tag puts a macro that is not active behind the active ones
\* and leaves the place of an active one; a plain run is emitted as the
\* result of the active macros applied successively in that order; a macro
\* unset with `/!name` is not active afterwards, so it is applied to no
\* later run.
C16_MacrosInActivationOrder ==
    [][/\ (TagStep /\ IsMacroSet(ev'.tag) /\ pc' = "run") =>
              LET names == [i \in 1..Len(active) |-> active[i].name]
                  names1 == [i \in 1..Len(active') |-> active'[i].name]
              IN  names1 = IF ev'.tag \in ActiveNames(active) THEN names
                           ELSE Append(names, ev'.tag)
       /\ (TagStep /\ IsMacroUnset(ev'.tag) /\ pc' = "run") =>
              LET names == [i \in 1..Len(active) |-> active[i].name]
                  names1 == [i \in 1..Len(active') |-> active'[i].name]
              IN  names1 = SelectSeq(names, LAMBDA n : n # Tail(ev'.tag))
       /\ (pc = "run" /\ ev'.kind = "plain" /\ pending = "none") =>
              /\ pc' = "run"
              /\ active' = active
              /\ \E p \in Plains :
                     run' = Append(run, Successive(active, Text(p)))]_vars

\* Two macros are active and a plain run went through both.
C16_Witness ==
    /\ pc = "run" /\ ev.kind = "plain"
    /\ Len(active) = 2
    /\ active[1].fn = NotAMacro /\ active[2].fn = UiUpper
    /\ run = <<[base |-> "Why did you call this", fx |-> <<UiUpper>>]>>

\* C18: a `/` tag puts every style attribute back at its default, leaves no
\* macro active, so that a `/!name` that follows fails, and appends one
\* FULL_RESET to the spans at that place: after the spans of the text before
\* it, whose count it leaves alone, and before those of any later text.
C18_FullReset ==
    [][/\ (TagStep /\ ev'.tag = <<"/">> /\ pending = "none") =>
              /\ pc' = "run" /\ pending' = "none"
              /\ styles' = GetStyleMap
              /\ \A k \in StyleKeySet : ~Truthy(styles'[k])
              /\ active' = <<>>
              /\ span' = FULL_RESET
              /\ out' = <<Sgr(<<ResetCode>>)>>
              /\ cstyles' = GetStyleMap
              /\ nspans' = nspans
              /\ run = <<>> /\ run' = <<>>
       /\ (TagStep /\ IsMacroUnset(ev'.tag) /\ ev = Event("tag", <<"/">>)) =>
              /\ pc' = "raised"
              /\ error' = "ZmlSemanticsError"]_vars

\* A `/!name` failed right after a `/` that followed a bold text span.
C18_Witness ==
    /\ pc = "raised" /\ error = "ZmlSemanticsError"
    /\ ev = Event("tag", <<"/", "!", "ui", "-", "upper">>)
    /\ span = FULL_RESET
    /\ Truthy(prev["bold"])
    /\ styles = GetStyleMap
    /\ nspans > 0
\* C25, as stated: a tag group that no plain run follows adds no text to
\* the output whatever macros are active, because no macro is invoked on an
\* empty run.
C25_EmptyRunAddsNoText ==
    [][(pc = "run" /\ ev'.kind = "empty") =>
          (pc' = "run" /\ run' = run /\ active' = active)]_vars

----------------------------------------------------------------------------
(* Properties of the flag tags, under SpecFlag. *)

\* The nine flag names as the tags are written, each with its attribute.
NamedFlags ==
    { [tag |-> <<"bold">>, key |-> "bold"],
      [tag |-> <<"dim">>, key |-> "dim"],
      [tag |-> <<"italic">>, key |-> "italic"],
      [tag |-> <<"underline">>, key |-> "underline"],
      [tag |-> <<"blink">>, key |-> "blink"],
      [tag |-> <<"fast", "-", "blink">>, key |-> "fast_blink"],
      [tag |-> <<"invert">>, key |-> "invert"],
      [tag |-> <<"conceal">>, key |-> "conceal"],
      [tag |-> <<"strike">>, key |-> "strike"] }

\* C17, as stated: for each of the nine flag names, the tag `name` sets that
\* flag to true and `/name` sets it to false, and no other attribute of the
\* style state changes.
C17_FlagTags ==
    [][\A f \in NamedFlags :
          /\ (TagStep /\ pending = "none" /\ ev'.tag = f.tag) =>
                /\ pc' = "run" /\ pending' = "none"
                /\ styles' = [styles EXCEPT ![f.key] = BoolVal(TRUE)]
          /\ (TagStep /\ pending = "none" /\ ev'.tag = <<"/">> \o f.tag) =>
                /\ pc' = "run" /\ pending' = "none"
                /\ styles' = [styles EXCEPT ![f.key] = BoolVal(FALSE)]]_vars

----------------------------------------------------------------------------
(* Properties of the colour indices, under SpecColor. *)

\* The decimal numbers as they are written, with their values.
Decimals ==
    { [lex |-> "0", val |-> 0], [lex |-> "7", val |-> 7],
      [lex |-> "8", val |-> 8], [lex |-> "15", val |-> 15],
      [lex |-> "16", val |-> 16], [lex |-> "255", val |-> 255],
      [lex |-> "256", val |-> 256], [lex |-> "300", val |-> 300],
      [lex |-> "1000", val |-> 1000] }

\* C19: a tag that is a decimal index above 255, on either layer, leaves the
\* parse with a ZmlNameError, which the call raises; an index 0..255 is
\* accepted on both layers and sets the colour of its layer.
C19_IndexRange ==
    [][/\ \A d \in Decimals :
            \A layer \in {"foreground", "background"} :
               (/\ TagStep /\ pending = "none"
                /\ ev'.tag = (IF layer = "background" THEN <<"@">> ELSE <<>>)
                                 \o <<d.lex>>) =>
                   IF d.val > 255
                   THEN pending' = "ZmlNameError" /\ styles' = styles
                   ELSE /\ pc' = "run" /\ pending' = "none"
                        /\ styles'[layer].kind = "color"
                        /\ \A k \in StyleKeySet \ {layer} :
                               styles'[k] = styles[k]
       /\ (pc = "run" /\ ev'.kind = "end" /\ pending = "ZmlNameError") =>
              (pc' = "raised" /\ error' = "ZmlNameError")]_vars

\* A call accepted an index on the foreground and then raised the
\* ZmlNameError of a later index above 255.
C19_Witness ==
    /\ pc = "raised" /\ error = "ZmlNameError"
    /\ pending = "ZmlNameError"
    /\ styles["foreground"].kind = "color"
    /\ styles["background"] = None

\* The SGR body of the index `i` on a layer; bg is 10 for the background.
IndexSgr(i, bg) ==
    IF i <= 7 THEN <<30 + bg + i>>
    ELSE IF i <= 15 THEN <<90 + bg + (i - 8)>>
    ELSE <<38 + bg, 5, i>>

\* Colours written as a hex literal and as an RGB triple.
HexTriples ==
    { [hex |-> <<"#", "ff0000">>, triple |-> <<"255", ";", "0", ";", "0">>,
       rgb |-> <<255, 0, 0>>],
      [hex |-> <<"#", "000000">>, triple |-> <<"0", ";", "0", ";", "0">>,
       rgb |-> <<0, 0, 0>>] }

\* C20: parse_color gives 30+i (40+i) for an index 0..7, 90+(i-8)
\* (100+(i-8)) for 8..15 and 38;5;i (48;5;i) for 16..255; a hex literal
\* `#rrggbb` and the RGB triple of the same colour both give 38;2;r;g;b
\* (48;2;r;g;b).
C20_ParseColorBodies ==
    LET bg == IF pcall.background THEN 10 ELSE 0
    IN  /\ \A d \in Decimals :
              (pcall.color = <<d.lex>> /\ d.val <= 255) =>
                  /\ pcall.res.raised = "none"
                  /\ pcall.res.body = IndexSgr(d.val, bg)
        /\ \A c \in HexTriples :
              pcall.color \in {c.hex, c.triple} =>
                  /\ pcall.res.raised = "none"
                  /\ pcall.res.body = <<38 + bg, 2>> \o c.rgb

\* parse_color("15", True) returned "107".
C20_Witness ==
    /\ pcall.color = <<"15">> /\ pcall.background
    /\ pcall.res.body = <<107>>

----------------------------------------------------------------------------
(* Properties of the caches, under SpecCache. *)

\* C15, as stated: after any history of calls and registrations, a zml call
\* returns (or raises) what a call with cold caches does for the same
\* markup and the current contents of the context, also for markup that
\* uses the gradient macro.
C15_ColdCacheEquivalent ==
    [][\A t \in GradientTexts, o \in GradientOrigins :
          ZmlGradient(t, o) =>
              LET cold == Gradient(t, o, aliases)
              IN  gres' = GradientEvent(IF cold.raised # "none" THEN "raised"
                                        ELSE "call", <<t, o>>, cold)]_vars

----------------------------------------------------------------------------
(* Properties of the LRUCache, under SpecLRU. *)

\* C12, as stated: the entry that a __setitem__ evicts is the least recently
\* used one, where cache[key], cache.get(key) and cache[key] = value all
\* count as a use of the key.
C12_EvictsLeastRecentlyUsed ==
    [][(lev'.op = "set" /\ Keys(cache) \ Keys(cache') # {}) =>
          Keys(cache) \ Keys(cache') = {Head(used)}]_vars

----------------------------------------------------------------------------
(* Properties of the Palette, under SpecPalette. *)

\* C13, as stated: Palette.alias(ctx) directly followed by Palette.unalias()
\* completes without error and leaves the alias tables as alias() found
\* them, whatever the context held before.
C13_AliasUnaliasRestores ==
    [][(pev.op = "alias" /\ pev.raised = "none" /\ ev.kind = "palette"
          /\ PaletteUnalias) =>
          (pev'.raised = "none" /\ <<aliases', other'>> = snap)]_vars

\* C14: alias on an aliased palette raises ValueError unless
\* ignore_already_aliased is set, and then changes neither the palette's
\* context nor any alias table; unalias on a palette that is not aliased
\* returns silently and changes nothing.
C14_AliasedPaletteGuard ==
    [][/\ \A c \in {"ctx", "other"} :
            (pal.ctx # "none" /\ PaletteAlias(c, FALSE)) =>
                /\ pev'.raised = "ValueError"
                /\ UNCHANGED <<pal, aliases, other>>
       /\ \A c \in {"ctx", "other"} :
            (pal.ctx # "none" /\ PaletteAlias(c, TRUE)) =>
                /\ pev'.raised = "none"
                /\ pal'.ctx = c
       /\ (pal.ctx = "none" /\ PaletteUnalias) =>
                /\ pev'.raised = "none"
                /\ UNCHANGED <<pal, aliases, other>>]_vars

C14_Witness ==
    /\ pev.op = "alias" /\ pev.raised = "ValueError"
    /\ pal.ctx # "none"
    /\ DOMAIN AliasesOf(pal.ctx) # {}

----------------------------------------------------------------------------
(* The bound of the LRUCache, under SpecLRU. *)

\* C29: the cache never holds more than its capacity; a __setitem__ evicts
\* only when it inserts an absent key into a full cache, it then evicts
\* exactly one entry, and the key it wrote is present afterwards; reads and
\* membership tests evict nothing.
C29_CapacityBound ==
    [][/\ Len(cache') <= LRUCapacity
       /\ Cardinality(Keys(cache')) = Len(cache')
       /\ lev'.op = "set" =>
             LET evicted == Keys(cache) \ Keys(cache')
             IN  /\ lev'.key \in Keys(cache')
                 /\ IF lev'.key \notin Keys(cache) /\ Len(cache) = LRUCapacity
                    THEN Cardinality(evicted) = 1
                    ELSE evicted = {}
       /\ lev'.op # "set" => Keys(cache') = Keys(cache)]_vars

\* The cache is full, a key is out of it, and the key just written is the
\* newest entry.
C29_Witness ==
    /\ lev.op = "set"
    /\ Len(cache) = LRUCapacity
    /\ cache[Len(cache)].key = lev.key
    /\ \E k \in CacheKeys : k \notin Keys(cache)

----------------------------------------------------------------------------
(* Properties of Color, under SpecFn. *)

\* The palette indices as they are written, with their values.
PaletteIndices ==
    { [lex |-> "0", val |-> 0], [lex |-> "1", val |-> 1],
      [lex |-> "7", val |-> 7], [lex |-> "8", val |-> 8],
      [lex |-> "9", val |-> 9], [lex |-> "15", val |-> 15],
      [lex |-> "16", val |-> 16], [lex |-> "141", val |-> 141],
      [lex |-> "255", val |-> 255] }

\* C21: for an index i of 0..255 and either layer, from_ansi of the SGR
\* body that parse_color builds for i is the colour of COLOR_TABLE[i].
C21_FromAnsiRecoversIndex ==
    \A d \in PaletteIndices :
        (fcall.fn = "from_ansi" /\ fcall.arg.index = d.lex) =>
            /\ fcall.res.raised = "none"
            /\ fcall.res.color.rgb = ColorTable(d.val)

\* from_ansi("107"), the body that parse_color builds for the index 15 on
\* the background, gave COLOR_TABLE[15].
C21_Witness ==
    /\ fcall.fn = "from_ansi"
    /\ fcall.arg = [index |-> "15", background |-> TRUE]
    /\ fcall.res.color.rgb = ColorTable(15)

----------------------------------------------------------------------------
(* The order of the colour codes and the style state after a span, under
   SpecAuto. *)

\* The places of the codes that set the attribute `k` in an SGR sequence.
SetPlaces(tok, k) ==
    {j \in 1..Len(tok.codes) :
        tok.codes[j].op = "set" /\ tok.codes[j].attr = k}

\* The SGR sequences of the last text span that set both layers.
BothLayers ==
    {i \in 1..Len(out) :
        /\ out[i].t = "sgr"
        /\ SetPlaces(out[i], "foreground") # {}
        /\ SetPlaces(out[i], "background") # {}}

\* C23, as stated: when a span sets both layers, the background code comes
\* before the foreground code in the span's SGR prefix.
C23_BackgroundFirst ==
    TextStep =>
        \A i \in BothLayers :
            \A b \in SetPlaces(out[i], "background") :
                \A f \in SetPlaces(out[i], "foreground") : b < f

\* C23, amended: when a span sets both layers, the foreground code comes
\* first in the span's SGR prefix and the background code follows it, ahead
\* of the codes of the flags.
C23_ForegroundFirst ==
    TextStep =>
        \A i \in BothLayers :
            /\ SetPlaces(out[i], "foreground") = {1}
            /\ SetPlaces(out[i], "background") = {2}

\* A span set a red foreground and a black background that were both given
\* by tags.
C23_Witness ==
    /\ TextStep
    /\ BothLayers # {}
    /\ span.attrs["foreground"] = Color(<<255, 0, 0>>, FALSE)
    /\ span.attrs["background"] = Color(<<0, 0, 0>>, TRUE)


\* C24, as stated: emitting a plain run leaves every attribute of the
\* parser's style state at the value it had before the automatic foreground
\* was derived, also while invert is active.
C24_EmitKeepsStyles ==
    (pc = "run" /\ ev.kind = "close" /\ pending = "none") => styles = before


----------------------------------------------------------------------------
(* Properties of the emitted spans, under SpecSpan. *)

\* C28: the last emitted span keeps the style it was emitted with: it is
\* the style map as the automatic foreground left it, the clearing of the
\* derived foreground does not reach it, and no later tag or plain run
\* changes it; a `/` appends the FULL_RESET sentinel as a span of its own.
C28_SpansKeepStyle ==
    [][(pc = "run" /\ pc' = "run") =>
          /\ (ev'.kind = "close" /\ pending' = "none") =>
                /\ span'.attrs = ApplyAutoForeground(styles).styles
                /\ span'.text = run
          /\ (ev'.kind = "tag" /\ ev'.tag # <<"/">>) => span' = span
          /\ (ev'.kind = "tag" /\ ev'.tag = <<"/">> /\ pending = "none") =>
                span' = FULL_RESET
          /\ ev'.kind \in {"plain", "empty"} => span' = span]_vars

\* A tag changed the background after a span was emitted with a derived
\* foreground: the span still has both.
C28_Witness ==
    /\ pc = "run" /\ ev = Event("tag", <<"/", "bg">>)
    /\ nspans > 0 /\ ~span.reset
    /\ span.attrs["foreground"] = Color(OFF_WHITE, FALSE)
    /\ span.attrs["background"] = Color(<<0, 0, 0>>, TRUE)
    /\ styles["foreground"] = None
    /\ styles["background"] = None

----------------------------------------------------------------------------
(* Properties of the slashed colour tags, under SpecSlash. *)

\* The colour tags behind a slash, each with the layer it addresses.
SlashedColors ==
    { [tag |-> <<"/", "red">>, layer |-> "foreground"],
      [tag |-> <<"/", "141">>, layer |-> "foreground"],
      [tag |-> <<"/", "@", "red">>, layer |-> "background"] }

\* C30, as stated: a colour tag that begins with `/` leaves the layer it
\* addresses unset and stores no colour in the foreground or background.
C30_SlashNeverSets ==
    [][\A c \in SlashedColors :
          (TagStep /\ pending = "none" /\ ev'.tag = c.tag) =>
              /\ styles'[c.layer] = None
              /\ \A k \in StyleKeySet \ {c.layer} : styles'[k] = styles[k]]_vars

----------------------------------------------------------------------------
(* Termination of the alias loop, under SpecAliasLive. *)

\* C27: the first loop of zml_pre_process comes to its end for every tag
\* group and every alias table, also when an alias names itself or two
\* aliases name each other.
C27_AliasLoopTerminates == (apc = "loop") ~> (apc = "done")

\* The loop is through with the group `[ping self]` under aliases that name
\* each other and themselves: each tag was replaced once.
C27_Witness ==
    /\ apc = "done"
    /\ <<"ping">> \in DOMAIN aliases /\ aliases[<<"ping">>] = << <<"pong">> >>
    /\ <<"pong">> \in DOMAIN aliases /\ aliases[<<"pong">>] = << <<"ping">> >>
    /\ aout = << <<"pong">>, <<"ping">> >>
----------------------------------------------------------------------------
(* The layer flag of the stored colours, under SpecColor. *)

----------------------------------------------------------------------------
(* The round trip of zml_escape and zml, under SpecEscape. *)

\* C32: for every plain text, zml(zml_escape(text)) returns the text
\* itself: the brackets of the text come back as literal text and no
\* escape sequence is added.
C32_EscapeRoundTrip == ecall.called => ecall.res = ecall.text

====
